---- MODULE Spec2Model ----
(***************************************************************************)
(* go-openzl: the frame codec (Writer / Reader), the lock-guarded          *)
(* Compressor / Decompressor contexts and the cgo wrappers they call.      *)
(*                                                                         *)
(* The specifications share the variables below:                           *)
(*   SpecW   one Writer, two sinks, faults of the sink and of the engine   *)
(*   SpecNew SpecW with the NewWriter calls and their options              *)
(*   Spec    a Writer on a sound sink, then a Reader over the bytes the    *)
(*           sink received (possibly truncated or extended), with faults   *)
(*           of the source and of the engine                               *)
(*   SpecCtx concurrent callers on a Compressor and a Decompressor         *)
(*           (FairSpecCtx: with the scheduler's fairness)                  *)
(*   SpecFn  the one-shot and typed compress / decompress functions        *)
(*   SpecFail  SpecFn and Spec with Writes that meet a failing engine      *)
(*   SpecNil the constructors and Resets called with nil                   *)
(*   SpecTwo two Writers, or two Readers, used side by side                *)
(*   SpecLoop  Write and Read taken one loop iteration at a time           *)
(*           (FairSpecLoop: a call under way runs on)                      *)
(* Frame sizes are scaled down: the code's range [4096, 1048576] becomes   *)
(* [MinFrameSize, MaxFrameSize]; nothing in Writer or Reader depends on    *)
(* the magnitude, only on the comparisons with the buffer fill.            *)
(***************************************************************************)
EXTENDS Integers, Sequences, FiniteSets, TLC

\* ------------------------------------------------------------------ bounds
MinFrameSize == 2
MaxFrameSize == 3
MaxWriteLen == 4
MaxTotal == 4
MaxStream == 3
MaxFaults == 2
MaxResets == 1
MaxReadLen == 2
MaxReaderResets == 1
NCallers == 2
MaxFnLen == 3
MaxElems == 2
MaxBuf == 9
MaxPairFaults == 1
MaxCalls == 3

\* ------------------------------------------------------------- vocabulary
Nil == "nil"
DataBytes == {0, 1}
SinkIds == {"A", "B"}

\* sentinel errors, errors.go
ErrEmptyInput == "openzl: empty input"
ErrCorruptedData == "openzl: corrupted data"
ErrContextClosed == "openzl: context closed"
ErrInvalidParameter == "openzl: invalid parameter"
\* io package sentinels used by reader.go
EOF == "EOF"
ErrUnexpectedEOF == "unexpected EOF"

Min(a, b) == IF a < b THEN a ELSE b

Take(s, n) == SubSeq(s, 1, Min(n, Len(s)))
Drop(s, n) == SubSeq(s, n + 1, Len(s))

Reverse(s) == [i \in 1..Len(s) |-> s[Len(s) + 1 - i]]

RECURSIVE SeqsUpTo(_, _)
SeqsUpTo(S, n) ==
  IF n = 0 THEN {<<>>}
  ELSE LET T == SeqsUpTo(S, n - 1)
       IN T \cup {Append(t, x) : t \in {u \in T : Len(u) = n - 1}, x \in S}

IsPrefix(s, t) == Len(s) <= Len(t) /\ SubSeq(t, 1, Len(s)) = s

\* ------------------------------------------------- the compression engine
\* The native engine is an external collaborator.  Its codec is taken as:
\* a frame is one size byte followed by the input reversed, so that the
\* frame is self-describing, never empty and not the identity.
ZL_compressBound(n) == n + 1

ZL_compress(src) == <<Len(src)>> \o Reverse(src)

\* ok = FALSE is the engine's error report
ZL_getDecompressedSize(src) ==
  IF src[1] = 0 THEN [ok |-> FALSE, n |-> 0] ELSE [ok |-> TRUE, n |-> src[1]]

ZL_decompress(dstLen, src) ==
  IF src[1] = 0 \/ Len(src) - 1 # src[1] \/ dstLen < src[1]
  THEN [ok |-> FALSE, out |-> <<>>]
  ELSE [ok |-> TRUE, out |-> Reverse(Drop(src, 1))]

\* ------------------------------------------------------ cgo wrappers
\* A call's outcome: out (bytes), err (Nil or an error), panic (the Go
\* runtime panics: nil pointer dereference or index out of range).
Ok(out) == [out |-> out, err |-> Nil, panic |-> FALSE]
Err(e) == [out |-> <<>>, err |-> e, panic |-> FALSE]
Panic == [out |-> <<>>, err |-> Nil, panic |-> TRUE]

CompressBound(srcSize) == ZL_compressBound(srcSize)

\* ctx is "ctx" for a live *CCtx and Nil for the nil pointer; engineFails
\* is the engine reporting an error on this call.
CCtxCompress(ctx, dstLen, src, engineFails) ==
  IF Len(src) = 0 THEN Err("empty input")
  ELSE IF dstLen = 0 THEN Err("empty destination buffer")
  ELSE IF ctx = Nil THEN Panic
  ELSE IF engineFails \/ dstLen < Len(ZL_compress(src)) THEN Err("openzl: engine")
  ELSE Ok(ZL_compress(src))

GetDecompressedSize(src) ==
  IF Len(src) = 0 THEN [err |-> "empty input", n |-> 0]
  ELSE IF ~ZL_getDecompressedSize(src).ok THEN [err |-> "openzl: engine", n |-> 0]
  ELSE [err |-> Nil, n |-> ZL_getDecompressedSize(src).n]

DCtxDecompress(ctx, dstLen, src, engineFails) ==
  IF Len(src) = 0 THEN Err("empty input")
  ELSE IF dstLen = 0 THEN Err("empty destination buffer")
  ELSE IF ctx = Nil THEN Panic
  ELSE IF engineFails \/ ~ZL_decompress(dstLen, src).ok THEN Err("openzl: engine")
  ELSE Ok(ZL_decompress(dstLen, src).out)

\* ------------------------------------------- Compressor / Decompressor
\* A Compress that returns the start of its destination buffer together
\* with the engine's error.
CompressorCompress_PartialOutput(c, src, engineFails) ==
  IF Len(src) = 0 THEN Err(ErrEmptyInput)
  ELSE LET r == CCtxCompress(c, CompressBound(Len(src)), src, engineFails)
       IN IF r.panic THEN Panic
          ELSE IF r.err # Nil
          THEN [out |-> <<Len(src)>>, err |-> "compress: " \o r.err, panic |-> FALSE]
          ELSE r

\* The whole method, as one caller runs it with the lock held; c is the
\* value of the ctx field.
CompressorCompress(c, src, engineFails) ==
  IF Len(src) = 0 THEN Err(ErrEmptyInput)
  ELSE LET r == CCtxCompress(c, CompressBound(Len(src)), src, engineFails)
       IN IF r.panic THEN Panic
          ELSE IF r.err # Nil THEN Err("compress: " \o r.err)
          ELSE r

DecompressorDecompress(d, src, engineFails) ==
  IF Len(src) = 0 THEN Err(ErrEmptyInput)
  ELSE LET sz == GetDecompressedSize(src)
       IN IF sz.err # Nil THEN Err("get decompressed size: " \o sz.err)
          ELSE LET r == DCtxDecompress(d, sz.n, src, engineFails)
               IN IF r.panic THEN Panic
                  ELSE IF r.err # Nil THEN Err("decompress: " \o r.err)
                  ELSE r

\* The typed wrappers, on the byte image of the numeric slice.
CompressTypedRef(ctx, dstLen, data, engineFails) ==
  IF dstLen = 0 THEN Err("empty destination buffer")
  ELSE IF ctx = Nil THEN Panic
  ELSE IF engineFails \/ dstLen < Len(ZL_compress(data)) THEN Err("openzl: engine")
  ELSE Ok(ZL_compress(data))

\* A frame announcing the size 0 makes &dstBytes[0] an index out of range.
DecompressTypedToBytes(ctx, src, engineFails) ==
  IF Len(src) = 0 THEN Err("empty input")
  ELSE IF GetDecompressedSize(src).err # Nil
  THEN Err("get decompressed size: " \o GetDecompressedSize(src).err)
  ELSE IF ctx = Nil \/ GetDecompressedSize(src).n = 0 THEN Panic
  ELSE IF engineFails \/ ~ZL_decompress(GetDecompressedSize(src).n, src).ok
  THEN Err("openzl: engine")
  ELSE Ok(ZL_decompress(GetDecompressedSize(src).n, src).out)

\* Wrapped(r, prefix): the caller's `if err != nil { return nil, fmt.Errorf(...) }`
Wrapped(r, prefix) ==
  IF r.panic THEN Panic
  ELSE IF r.err # Nil THEN Err(prefix \o r.err)
  ELSE r

CompressorCompressNumeric(c, data, engineFails) ==
  IF Len(data) = 0 THEN Err(ErrEmptyInput)
  ELSE Wrapped(CompressTypedRef(c, CompressBound(Len(data)) * 2, data, engineFails),
               "compress typed: ")

\* The result is the byte image, before its conversion to a typed slice.
DecompressorDecompressNumeric(d, compressed, engineFails) ==
  IF Len(compressed) = 0 THEN Err(ErrEmptyInput)
  ELSE Wrapped(DecompressTypedToBytes(d, compressed, engineFails), "decompress typed: ")

\* ------------------------------------------------ one-shot functions
\* Compress and Decompress of simple.go: each call creates a context of its
\* own, uses it once and frees it.
Compress(src, engineFails) ==
  IF Len(src) = 0 THEN Err(ErrEmptyInput)
  ELSE Wrapped(CCtxCompress("ctx", CompressBound(Len(src)), src, engineFails),
               "compress: ")

\* A Decompress that hands an empty input on to the wrapper.
Decompress_NoEmptyCheck(src, engineFails) ==
  IF Len(src) = 0
  THEN Wrapped(DCtxDecompress("ctx", 0, src, engineFails), "decompress: ")
  ELSE IF GetDecompressedSize(src).err # Nil
  THEN Err("get decompressed size: " \o GetDecompressedSize(src).err)
  ELSE Wrapped(DCtxDecompress("ctx", GetDecompressedSize(src).n, src, engineFails),
               "decompress: ")

\* A Decompress with a destination of one byte, whatever the frame announces.
Decompress_OneByteBuffer(src, engineFails) ==
  IF Len(src) = 0 THEN Err(ErrEmptyInput)
  ELSE IF GetDecompressedSize(src).err # Nil
  THEN Err("get decompressed size: " \o GetDecompressedSize(src).err)
  ELSE Wrapped(DCtxDecompress("ctx", 1, src, engineFails), "decompress: ")

Decompress(src, engineFails) ==
  IF Len(src) = 0 THEN Err(ErrEmptyInput)
  ELSE IF GetDecompressedSize(src).err # Nil
  THEN Err("get decompressed size: " \o GetDecompressedSize(src).err)
  ELSE Wrapped(DCtxDecompress("ctx", GetDecompressedSize(src).n, src, engineFails),
               "decompress: ")

\* ------------------------------------------------------- numeric slices
\* An element of a numeric type of width w is the w bytes it occupies in
\* memory; a slice []T is a sequence of elements.
Widths == {1, 2, 4, 8}

\* The memory a slice occupies, which the TypedRef points at.
RECURSIVE TypedToBytes(_)
TypedToBytes(v) == IF v = <<>> THEN <<>> ELSE v[1] \o TypedToBytes(Tail(v))

\* unsafe.Sizeof(zero) of the element type of a non-empty slice.
ElementSize(v) == Len(v[1])

\* A conversion that makes an element of every byte.
BytesToTypedSlice_ByteElements(data, w) ==
  IF Len(data) = 0 THEN Ok(<<>>)
  ELSE IF Len(data) % w # 0
  THEN Err("byte slice length is not a multiple of element size")
  ELSE Ok([i \in 1..Len(data) |-> <<data[i]>>])

\* A BytesToTypedSlice without the length test: the bytes behind the last
\* whole element are dropped.
BytesToTypedSlice_Truncating(data, w) ==
  IF Len(data) = 0 THEN Ok(<<>>)
  ELSE Ok([i \in 1..(Len(data) \div w) |-> SubSeq(data, (i - 1) * w + 1, i * w)])

\* BytesToTypedSlice[T] with w the size of T.
BytesToTypedSlice(data, w) ==
  IF Len(data) = 0 THEN Ok(<<>>)
  ELSE IF Len(data) % w # 0
  THEN Err("byte slice length is not a multiple of element size")
  ELSE Ok([i \in 1..(Len(data) \div w) |-> SubSeq(data, (i - 1) * w + 1, i * w)])

\* The conversion that follows a typed decompression that returned r.
ToTypedSlice(r, w) ==
  IF r.panic \/ r.err # Nil THEN r
  ELSE Wrapped(BytesToTypedSlice(r.out, w), "convert to typed slice: ")

CompressNumeric(data, engineFails) ==
  IF Len(data) = 0 THEN Err(ErrEmptyInput)
  ELSE Wrapped(CompressTypedRef("ctx", CompressBound(Len(data) * ElementSize(data)) * 2,
                                TypedToBytes(data), engineFails),
               "compress typed: ")

\* A DecompressNumeric that returns the decompressed bytes as they are.
DecompressNumeric_NoConversion(w, compressed, engineFails) ==
  IF Len(compressed) = 0 THEN Err(ErrEmptyInput)
  ELSE Wrapped(DecompressTypedToBytes("ctx", compressed, engineFails),
               "decompress typed: ")

DecompressNumeric(w, compressed, engineFails) ==
  IF Len(compressed) = 0 THEN Err(ErrEmptyInput)
  ELSE ToTypedSlice(Wrapped(DecompressTypedToBytes("ctx", compressed, engineFails),
                            "decompress typed: "), w)

\* The context-bound variants, from the slice to the slice.
CompressorCompressNumericOf(c, data, engineFails) ==
  CompressorCompressNumeric(c, TypedToBytes(data), engineFails)

DecompressorDecompressNumericAs(d, w, compressed, engineFails) ==
  ToTypedSlice(DecompressorDecompressNumeric(d, compressed, engineFails), w)

\* ------------------------------------------------------------------ state
VARIABLES
  writer,      \* the Writer: w, compressor, buf, bufSize, frameSize, closed, err
  sink,        \* bytes each sink has received
  accepted,    \* per sink: the bytes Write accepted while bound to it
  sinkFailed,  \* per sink: some write to it has failed
  wret,        \* what the last Writer call returned: op, n, err
  wfaults,     \* faults injected so far
  wresets,     \* Reset calls so far
  made,        \* the last NewWriter call: its arguments, what it returned and
               \* the compressors it created and closed
  period,      \* since the Writer was last bound: base (bytes the sink held
               \* then), writeErr (the error of the Write that failed),
               \* closeErr (what the closing Close returned, "open" before)
  reader,      \* the Reader: r, decompressor, buf, bufPos, bufSize, closed, eof, err
  source,      \* the Reader's source: data, pos, and how it was derived
  delivered,   \* bytes the Reader returned since it was bound to the source
  srcCalls,    \* io.ReadFull calls the Reader made on the source
  engCalls,    \* Decompress calls the Reader made
  rret,        \* what the last Reader call returned: op, n, err
  lastFrame,   \* what the last readFrame saw: header bytes got, payload bytes
               \* wanted and got, whether the source raised an error, and
               \* the error readFrame returned
  rresets,     \* Reader.Reset calls so far
  phase,       \* "write" or "read" in Spec
  ctx,         \* per context: the ctx field, "ctx" or Nil
  mu,          \* per context: the caller holding the mutex, or Unlocked
  pc,          \* per caller: its position in the method it runs
  call,        \* per caller: the method, the context and the input
  res,         \* per caller: what its last call returned
  freed,       \* per context: how often the native handle was released
  crashed,     \* a goroutine panicked: the process is gone
  fn           \* the last call of a compress / decompress entry point made by
               \* a sequential caller: op, w (the size of the element type),
               \* arg, what it returned (out, err, panic), called (it called
               \* into the native library), fault (the engine was made to
               \* fail), and for a decompression of what the call before it,
               \* a compression, returned: orig and origw, the input of that
               \* compression and its element size
VARIABLE
  inst         \* two Writers, or two Readers, made apart, each with a sink
               \* or source of its own: per instance the object, the native
               \* handle of its context, its sink's or source's bytes, the
               \* bytes it accepted or delivered and its last return; the
               \* handles that are live; and the same instance run alone

VARIABLE
  loop         \* a Write call and a Read call taken one loop iteration at a
               \* time: the call (op, its argument, the fault it meets), where
               \* it stands (at), the Writer and its sink, the Reader and its
               \* source, the bytes left and copied, what the call returned,
               \* and the operands as they were when the call was made (was)

wvars == <<writer, sink, accepted, sinkFailed, wret, wfaults, wresets, made, period>>
rvars == <<reader, source, delivered, srcCalls, engCalls, rret, lastFrame, rresets, phase>>
cvars == <<ctx, mu, pc, call, res, freed, crashed>>
vars == <<wvars, rvars, cvars, fn, inst, loop, loop>>

\* ----------------------------------------------------------------- Writer
FrameSizes == MinFrameSize..MaxFrameSize

\* The frame size of a Writer made without WithFrameSize, on the scale of
\* MinFrameSize and MaxFrameSize.
DefaultFrameSize == MinFrameSize + 1

\* NewWriter with opts the sizes of its WithFrameSize options, in order; the
\* buffer starts zeroed (make([]byte, n)).  acquired and released count the
\* compressors NewWriter created and closed.
NewWriter(w, opts) ==
  IF w = Nil
  THEN [ok |-> FALSE, err |-> "nil writer", wr |-> Nil, acquired |-> 0, released |-> 0]
  ELSE IF \E i \in 1..Len(opts) : opts[i] < MinFrameSize \/ opts[i] > MaxFrameSize
  THEN [ok |-> FALSE, err |-> "frame size must be between", wr |-> Nil,
        acquired |-> 1, released |-> 1]
  ELSE LET size == IF opts = <<>> THEN DefaultFrameSize ELSE opts[Len(opts)]
       IN [ok |-> TRUE, err |-> Nil,
           wr |-> [w |-> w, compressor |-> "ctx", buf |-> [i \in 1..size |-> 0],
                   bufSize |-> 0, frameSize |-> size, closed |-> FALSE, err |-> Nil],
           acquired |-> 1, released |-> 0]

\* What is kept of a NewWriter call.
Made(w, opts, o) ==
  [w |-> w, opts |-> opts, ok |-> o.ok, err |-> o.err,
   acquired |-> o.acquired, released |-> o.released]

NoAttempt ==
  [w |-> Nil, opts |-> <<>>, ok |-> FALSE, err |-> Nil, acquired |-> 0, released |-> 0]

\* binary little-endian, 4 bytes
LittleEndian4(n) ==
  << n % 256, (n \div 256) % 256, (n \div 65536) % 256, (n \div 16777216) % 256 >>

Uint32(h) == h[1] + 256 * h[2] + 65536 * h[3] + 16777216 * h[4]

\* A fault of one call: the at-th flush (or frame read) of the call fails
\* at the given stage.
NoFault == [at |-> 0, stage |-> "none"]
StageAt(fault, k) == IF fault.at = k THEN fault.stage ELSE "none"

\* A flush whose header carries the length of the input, not of the
\* compressed frame.
flush_InputLenHeader(wr, sk, stage) ==
  IF wr.bufSize = 0
  THEN [wr |-> wr, sk |-> sk, err |-> Nil, sinkErr |-> FALSE, panic |-> FALSE]
  ELSE
    LET c == CompressorCompress(wr.compressor, SubSeq(wr.buf, 1, wr.bufSize),
                                stage = "compress")
        header == LittleEndian4(wr.bufSize)
    IN IF c.panic
       THEN [wr |-> wr, sk |-> sk, err |-> Nil, sinkErr |-> FALSE, panic |-> TRUE]
       ELSE IF c.err # Nil
       THEN [wr |-> wr, sk |-> sk, err |-> "compress: " \o c.err, sinkErr |-> FALSE,
             panic |-> FALSE]
       ELSE IF stage = "header"
       THEN [wr |-> wr, sk |-> sk, err |-> "write header: sink", sinkErr |-> TRUE,
             panic |-> FALSE]
       ELSE IF stage = "payload"
       THEN [wr |-> wr, sk |-> sk \o header, err |-> "write compressed: sink",
             sinkErr |-> TRUE, panic |-> FALSE]
       ELSE [wr |-> [wr EXCEPT !.bufSize = 0], sk |-> sk \o header \o c.out,
             err |-> Nil, sinkErr |-> FALSE, panic |-> FALSE]

\* flush: wr the Writer, sk the bytes of the bound sink, stage the fault of
\* this flush.  A failing sink write stores nothing.
flush(wr, sk, stage) ==
  IF wr.bufSize = 0
  THEN [wr |-> wr, sk |-> sk, err |-> Nil, sinkErr |-> FALSE, panic |-> FALSE]
  ELSE
    LET c == CompressorCompress(wr.compressor, SubSeq(wr.buf, 1, wr.bufSize),
                                stage = "compress")
        header == LittleEndian4(Len(c.out))
    IN IF c.panic
       THEN [wr |-> wr, sk |-> sk, err |-> Nil, sinkErr |-> FALSE, panic |-> TRUE]
       ELSE IF c.err # Nil
       THEN [wr |-> wr, sk |-> sk, err |-> "compress: " \o c.err, sinkErr |-> FALSE,
             panic |-> FALSE]
       ELSE IF stage = "header"
       THEN [wr |-> wr, sk |-> sk, err |-> "write header: sink", sinkErr |-> TRUE,
             panic |-> FALSE]
       ELSE IF stage = "payload"
       THEN [wr |-> wr, sk |-> sk \o header, err |-> "write compressed: sink",
             sinkErr |-> TRUE, panic |-> FALSE]
       ELSE [wr |-> [wr EXCEPT !.bufSize = 0], sk |-> sk \o header \o c.out,
             err |-> Nil, sinkErr |-> FALSE, panic |-> FALSE]

\* The loop of Write: p the bytes left, written the count so far, k the
\* number of the next flush of this call.
RECURSIVE WriteLoop(_, _, _, _, _, _)
WriteLoop(wr, sk, p, written, k, fault) ==
  IF Len(p) = 0
  THEN [wr |-> wr, sk |-> sk, n |-> written, err |-> Nil, sinkErr |-> FALSE,
        panic |-> FALSE]
  ELSE
    LET available == wr.frameSize - wr.bufSize
        toCopy == Min(Len(p), available)
        wr1 == [wr EXCEPT
                  !.buf = [i \in 1..wr.frameSize |->
                             IF i > wr.bufSize /\ i <= wr.bufSize + toCopy
                             THEN p[i - wr.bufSize] ELSE wr.buf[i]],
                  !.bufSize = wr.bufSize + toCopy]
        rest == Drop(p, toCopy)
    IN IF wr1.bufSize = wr1.frameSize
       THEN LET fl == flush(wr1, sk, StageAt(fault, k))
            IN IF fl.panic
               THEN [wr |-> fl.wr, sk |-> fl.sk, n |-> written + toCopy, err |-> Nil,
                     sinkErr |-> FALSE, panic |-> TRUE]
               ELSE IF fl.err # Nil
               THEN [wr |-> [fl.wr EXCEPT !.err = fl.err], sk |-> fl.sk,
                     n |-> written + toCopy, err |-> fl.err, sinkErr |-> fl.sinkErr,
                     panic |-> FALSE]
               ELSE WriteLoop(fl.wr, fl.sk, rest, written + toCopy, k + 1, fault)
       ELSE WriteLoop(wr1, sk, rest, written + toCopy, k, fault)

\* A Write that does not look at the closed flag.
WriterWrite_NoClosedCheck(wr, sk, p, fault) ==
  IF wr.err # Nil
  THEN [wr |-> wr, sk |-> sk, n |-> 0, err |-> wr.err, sinkErr |-> FALSE,
        panic |-> FALSE]
  ELSE WriteLoop(wr, sk, p, 0, 1, fault)

\* A Write that returns the error of a failed flush without keeping it.
WriterWrite_NoStickyError(wr, sk, p, fault) ==
  IF wr.closed
  THEN [wr |-> wr, sk |-> sk, n |-> 0, err |-> "write to closed Writer",
        sinkErr |-> FALSE, panic |-> FALSE]
  ELSE IF wr.err # Nil
  THEN [wr |-> wr, sk |-> sk, n |-> 0, err |-> wr.err, sinkErr |-> FALSE,
        panic |-> FALSE]
  ELSE [WriteLoop(wr, sk, p, 0, 1, fault) EXCEPT !.wr.err = Nil]

\* A Write that flushes what is left in the buffer before it returns.
WriterWrite_FlushAtEnd(wr, sk, p, fault) ==
  IF wr.closed
  THEN [wr |-> wr, sk |-> sk, n |-> 0, err |-> "write to closed Writer",
        sinkErr |-> FALSE, panic |-> FALSE]
  ELSE IF wr.err # Nil
  THEN [wr |-> wr, sk |-> sk, n |-> 0, err |-> wr.err, sinkErr |-> FALSE,
        panic |-> FALSE]
  ELSE LET o == WriteLoop(wr, sk, p, 0, 1, fault)
       IN IF o.panic \/ o.err # Nil THEN o
          ELSE [o EXCEPT !.wr = flush(o.wr, o.sk, "none").wr,
                         !.sk = flush(o.wr, o.sk, "none").sk]

WriterWrite(wr, sk, p, fault) ==
  IF wr.closed
  THEN [wr |-> wr, sk |-> sk, n |-> 0, err |-> "write to closed Writer",
        sinkErr |-> FALSE, panic |-> FALSE]
  ELSE IF wr.err # Nil
  THEN [wr |-> wr, sk |-> sk, n |-> 0, err |-> wr.err, sinkErr |-> FALSE,
        panic |-> FALSE]
  ELSE WriteLoop(wr, sk, p, 0, 1, fault)

\* A Close that forgets the partial buffer: marks the Writer closed, writes
\* the marker and releases the context.
WriterClose_NoFinalFlush(wr, sk, fault) ==
  IF wr.closed
  THEN [wr |-> wr, sk |-> sk, n |-> 0, err |-> Nil, sinkErr |-> FALSE, panic |-> FALSE]
  ELSE IF fault.stage = "marker"
  THEN [wr |-> [wr EXCEPT !.closed = TRUE, !.compressor = Nil], sk |-> sk, n |-> 0,
        err |-> "write end marker: sink", sinkErr |-> TRUE, panic |-> FALSE]
  ELSE [wr |-> [wr EXCEPT !.closed = TRUE, !.compressor = Nil, !.bufSize = 0],
        sk |-> sk \o <<0, 0, 0, 0>>, n |-> 0, err |-> Nil, sinkErr |-> FALSE,
        panic |-> FALSE]

\* A Close that writes the marker before the pending bytes.
WriterClose_MarkerFirst(wr, sk, fault) ==
  IF wr.closed
  THEN [wr |-> wr, sk |-> sk, n |-> 0, err |-> Nil, sinkErr |-> FALSE, panic |-> FALSE]
  ELSE IF fault.stage = "marker"
  THEN [wr |-> [wr EXCEPT !.closed = TRUE, !.compressor = Nil], sk |-> sk, n |-> 0,
        err |-> "write end marker: sink", sinkErr |-> TRUE, panic |-> FALSE]
  ELSE
    LET wr0 == [wr EXCEPT !.closed = TRUE]
        sk0 == sk \o <<0, 0, 0, 0>>
        fl == IF wr0.bufSize > 0 THEN flush(wr0, sk0, StageAt(fault, 1))
              ELSE [wr |-> wr0, sk |-> sk0, err |-> Nil, sinkErr |-> FALSE,
                    panic |-> FALSE]
    IN [wr |-> [fl.wr EXCEPT !.compressor = Nil], sk |-> fl.sk, n |-> 0,
        err |-> fl.err, sinkErr |-> fl.sinkErr, panic |-> fl.panic]

\* A Close that does not look at the closed flag: a second Close flushes and
\* writes the marker again.
WriterClose_NoClosedCheck(wr, sk, fault) ==
  LET wr0 == [wr EXCEPT !.closed = TRUE]
      fl == IF wr0.bufSize > 0 THEN flush(wr0, sk, StageAt(fault, 1))
            ELSE [wr |-> wr0, sk |-> sk, err |-> Nil, sinkErr |-> FALSE,
                  panic |-> FALSE]
  IN IF fl.panic
     THEN [wr |-> fl.wr, sk |-> fl.sk, n |-> 0, err |-> Nil, sinkErr |-> FALSE,
           panic |-> TRUE]
     ELSE IF fl.err # Nil
     THEN [wr |-> [fl.wr EXCEPT !.compressor = Nil], sk |-> fl.sk, n |-> 0,
           err |-> fl.err, sinkErr |-> fl.sinkErr, panic |-> FALSE]
     ELSE IF fault.stage = "marker"
     THEN [wr |-> [fl.wr EXCEPT !.compressor = Nil], sk |-> fl.sk, n |-> 0,
           err |-> "write end marker: sink", sinkErr |-> TRUE, panic |-> FALSE]
     ELSE [wr |-> [fl.wr EXCEPT !.compressor = Nil],
           sk |-> fl.sk \o <<0, 0, 0, 0>>, n |-> 0,
           err |-> Nil, sinkErr |-> FALSE, panic |-> FALSE]

\* A Close that returns the error of the flush or of the marker without
\* closing the compressor.
WriterClose_LeakOnError(wr, sk, fault) ==
  IF wr.closed
  THEN [wr |-> wr, sk |-> sk, n |-> 0, err |-> Nil, sinkErr |-> FALSE, panic |-> FALSE]
  ELSE
    LET wr0 == [wr EXCEPT !.closed = TRUE]
        fl == IF wr0.bufSize > 0 THEN flush(wr0, sk, StageAt(fault, 1))
              ELSE [wr |-> wr0, sk |-> sk, err |-> Nil, sinkErr |-> FALSE,
                    panic |-> FALSE]
    IN IF fl.panic
       THEN [wr |-> fl.wr, sk |-> fl.sk, n |-> 0, err |-> Nil, sinkErr |-> FALSE,
             panic |-> TRUE]
       ELSE IF fl.err # Nil
       THEN [wr |-> fl.wr, sk |-> fl.sk, n |-> 0,
             err |-> fl.err, sinkErr |-> fl.sinkErr, panic |-> FALSE]
       ELSE IF fault.stage = "marker"
       THEN [wr |-> fl.wr, sk |-> fl.sk, n |-> 0,
             err |-> "write end marker: sink", sinkErr |-> TRUE, panic |-> FALSE]
       ELSE [wr |-> [fl.wr EXCEPT !.compressor = Nil],
             sk |-> fl.sk \o <<0, 0, 0, 0>>, n |-> 0,
             err |-> Nil, sinkErr |-> FALSE, panic |-> FALSE]

\* Close: the fault is that of its one flush, or stage "marker".
WriterClose(wr, sk, fault) ==
  IF wr.closed
  THEN [wr |-> wr, sk |-> sk, n |-> 0, err |-> Nil, sinkErr |-> FALSE, panic |-> FALSE]
  ELSE
    LET wr0 == [wr EXCEPT !.closed = TRUE]
        fl == IF wr0.bufSize > 0 THEN flush(wr0, sk, StageAt(fault, 1))
              ELSE [wr |-> wr0, sk |-> sk, err |-> Nil, sinkErr |-> FALSE,
                    panic |-> FALSE]
    IN IF fl.panic
       THEN [wr |-> fl.wr, sk |-> fl.sk, n |-> 0, err |-> Nil, sinkErr |-> FALSE,
             panic |-> TRUE]
       ELSE IF fl.err # Nil
       THEN [wr |-> [fl.wr EXCEPT !.compressor = Nil], sk |-> fl.sk, n |-> 0,
             err |-> fl.err, sinkErr |-> fl.sinkErr, panic |-> FALSE]
       ELSE IF fault.stage = "marker"
       THEN [wr |-> [fl.wr EXCEPT !.compressor = Nil], sk |-> fl.sk, n |-> 0,
             err |-> "write end marker: sink", sinkErr |-> TRUE, panic |-> FALSE]
       ELSE [wr |-> [fl.wr EXCEPT !.compressor = Nil],
             sk |-> fl.sk \o <<0, 0, 0, 0>>, n |-> 0,
             err |-> Nil, sinkErr |-> FALSE, panic |-> FALSE]

\* A Reset that rebinds without flushing the pending bytes.
WriterReset_NoFlush(wr, sk, newW, fault) ==
  IF newW = Nil
  THEN [wr |-> wr, sk |-> sk, n |-> 0, err |-> "nil writer", sinkErr |-> FALSE,
        panic |-> FALSE]
  ELSE [wr |-> [wr EXCEPT
                  !.compressor = IF wr.closed THEN "ctx" ELSE @,
                  !.w = newW, !.bufSize = 0, !.closed = FALSE, !.err = Nil],
        sk |-> sk, n |-> 0, err |-> Nil, sinkErr |-> FALSE, panic |-> FALSE]

\* A Reset that flushes the pending bytes before it looks at its argument.
WriterReset_FlushBeforeNilCheck(wr, sk, newW, fault) ==
  LET fl == IF ~wr.closed /\ wr.bufSize > 0 THEN flush(wr, sk, StageAt(fault, 1))
            ELSE [wr |-> wr, sk |-> sk, err |-> Nil, sinkErr |-> FALSE,
                  panic |-> FALSE]
  IN IF fl.panic
     THEN [wr |-> fl.wr, sk |-> fl.sk, n |-> 0, err |-> Nil, sinkErr |-> FALSE,
           panic |-> TRUE]
     ELSE IF fl.err # Nil
     THEN [wr |-> fl.wr, sk |-> fl.sk, n |-> 0, err |-> fl.err,
           sinkErr |-> fl.sinkErr, panic |-> FALSE]
     ELSE IF newW = Nil
     THEN [wr |-> fl.wr, sk |-> fl.sk, n |-> 0, err |-> "nil writer",
           sinkErr |-> FALSE, panic |-> FALSE]
     ELSE [wr |-> [fl.wr EXCEPT
                     !.compressor = IF fl.wr.closed THEN "ctx" ELSE @,
                     !.w = newW, !.bufSize = 0, !.closed = FALSE, !.err = Nil],
           sk |-> fl.sk, n |-> 0, err |-> Nil, sinkErr |-> FALSE, panic |-> FALSE]

\* A Reset that flushes the pending bytes of a closed Writer too.
WriterReset_FlushWhenClosed(wr, sk, newW, fault) ==
  IF newW = Nil
  THEN [wr |-> wr, sk |-> sk, n |-> 0, err |-> "nil writer", sinkErr |-> FALSE,
        panic |-> FALSE]
  ELSE
    LET fl == IF wr.bufSize > 0 THEN flush(wr, sk, StageAt(fault, 1))
              ELSE [wr |-> wr, sk |-> sk, err |-> Nil, sinkErr |-> FALSE,
                    panic |-> FALSE]
    IN IF fl.panic
       THEN [wr |-> fl.wr, sk |-> fl.sk, n |-> 0, err |-> Nil, sinkErr |-> FALSE,
             panic |-> TRUE]
       ELSE IF fl.err # Nil
       THEN [wr |-> fl.wr, sk |-> fl.sk, n |-> 0, err |-> fl.err,
             sinkErr |-> fl.sinkErr, panic |-> FALSE]
       ELSE [wr |-> [fl.wr EXCEPT
                       !.compressor = IF fl.wr.closed THEN "ctx" ELSE @,
                       !.w = newW, !.bufSize = 0, !.closed = FALSE, !.err = Nil],
             sk |-> fl.sk, n |-> 0, err |-> Nil, sinkErr |-> FALSE, panic |-> FALSE]

\* Reset: sk the bytes of the sink bound before the call; the pending bytes
\* go there.
WriterReset(wr, sk, newW, fault) ==
  IF newW = Nil
  THEN [wr |-> wr, sk |-> sk, n |-> 0, err |-> "nil writer", sinkErr |-> FALSE,
        panic |-> FALSE]
  ELSE
    LET fl == IF ~wr.closed /\ wr.bufSize > 0 THEN flush(wr, sk, StageAt(fault, 1))
              ELSE [wr |-> wr, sk |-> sk, err |-> Nil, sinkErr |-> FALSE,
                    panic |-> FALSE]
    IN IF fl.panic
       THEN [wr |-> fl.wr, sk |-> fl.sk, n |-> 0, err |-> Nil, sinkErr |-> FALSE,
             panic |-> TRUE]
       ELSE IF fl.err # Nil
       THEN [wr |-> fl.wr, sk |-> fl.sk, n |-> 0, err |-> fl.err,
             sinkErr |-> fl.sinkErr, panic |-> FALSE]
       ELSE [wr |-> [fl.wr EXCEPT
                       !.compressor = IF fl.wr.closed THEN "ctx" ELSE @,
                       !.w = newW, !.bufSize = 0, !.closed = FALSE, !.err = Nil],
             sk |-> fl.sk, n |-> 0, err |-> Nil, sinkErr |-> FALSE, panic |-> FALSE]

\* ----------------------------------------------------------------- Reader
NewReader(r) ==
  IF r = Nil THEN [ok |-> FALSE, err |-> "nil reader", rd |-> Nil]
  ELSE [ok |-> TRUE, err |-> Nil,
        rd |-> [r |-> r, decompressor |-> "ctx", buf |-> <<>>, bufPos |-> 0,
                bufSize |-> 0, closed |-> FALSE, eof |-> FALSE, err |-> Nil]]

\* A ReadFull that takes from the source all it has and keeps what is
\* behind the n bytes asked for.
ReadFull_ReadAhead(data, pos, n, srcErr) ==
  LET avail == Len(data) - pos
  IN IF srcErr THEN [got |-> <<>>, pos |-> pos, err |-> "src"]
     ELSE IF avail = 0 THEN [got |-> <<>>, pos |-> pos, err |-> EOF]
     ELSE IF avail < n
     THEN [got |-> SubSeq(data, pos + 1, Len(data)), pos |-> Len(data),
           err |-> ErrUnexpectedEOF]
     ELSE [got |-> SubSeq(data, pos + 1, pos + n), pos |-> Len(data), err |-> Nil]

\* io.ReadFull(r, buf) with len(buf) = n >= 1 on a source with the bytes
\* data, of which pos are consumed; srcErr is the source raising an error
\* before it yields a byte.
ReadFull(data, pos, n, srcErr) ==
  LET avail == Len(data) - pos
  IN IF srcErr THEN [got |-> <<>>, pos |-> pos, err |-> "src"]
     ELSE IF avail = 0 THEN [got |-> <<>>, pos |-> pos, err |-> EOF]
     ELSE IF avail < n
     THEN [got |-> SubSeq(data, pos + 1, Len(data)), pos |-> Len(data),
           err |-> ErrUnexpectedEOF]
     ELSE [got |-> SubSeq(data, pos + 1, pos + n), pos |-> pos + n, err |-> Nil]

NoFrame == [hdr |-> 0, want |-> 0, got |-> 0, srcErr |-> FALSE, err |-> Nil, seen |-> FALSE]

\* What one frame read saw: hdr header bytes obtained, want the payload
\* length the header announced, got the payload bytes obtained, srcErr the
\* source raised an error of its own, e the error readFrame returned.
FrameSeen(hdr, want, got, srcErr, e) ==
  [hdr |-> hdr, want |-> want, got |-> got, srcErr |-> srcErr, err |-> e, seen |-> TRUE]

\* readFrame from the Decompress call on: b the payload read, d the result
\* of Decompress.
readFrameDecompress(rd, src, frameSize, b, d) ==
  IF d.panic
  THEN [rd |-> rd, src |-> [src EXCEPT !.pos = b.pos], err |-> Nil, calls |-> 2,
        eng |-> 1, panic |-> TRUE, frame |-> FrameSeen(4, frameSize, frameSize, FALSE, Nil)]
  ELSE IF d.err # Nil
  THEN [rd |-> rd, src |-> [src EXCEPT !.pos = b.pos],
        err |-> "decompress: " \o d.err, calls |-> 2, eng |-> 1, panic |-> FALSE,
        frame |-> FrameSeen(4, frameSize, frameSize, FALSE, "decompress: " \o d.err)]
  ELSE [rd |-> [rd EXCEPT !.buf = d.out, !.bufPos = 0, !.bufSize = Len(d.out)],
        src |-> [src EXCEPT !.pos = b.pos], err |-> Nil, calls |-> 2, eng |-> 1,
        panic |-> FALSE, frame |-> FrameSeen(4, frameSize, frameSize, FALSE, Nil)]

\* readFrame from the payload read on: frameSize the length the header
\* announced (not zero), b the result of reading that many bytes.
readFramePayload(rd, src, stage, frameSize, b) ==
  IF b.err # Nil
  THEN [rd |-> rd, src |-> [src EXCEPT !.pos = b.pos],
        err |-> IF b.err = EOF THEN ErrUnexpectedEOF ELSE "read frame: " \o b.err,
        calls |-> 2, eng |-> 0, panic |-> FALSE,
        frame |-> FrameSeen(4, frameSize, Len(b.got), b.err = "src",
                            IF b.err = EOF THEN ErrUnexpectedEOF
                            ELSE "read frame: " \o b.err)]
  ELSE readFrameDecompress(rd, src, frameSize, b,
         DecompressorDecompress(rd.decompressor, b.got, stage = "engine"))

\* readFrame from the header read on: h the result of reading 4 bytes.
readFrameHeader(rd, src, stage, h) ==
  IF h.err # Nil
  THEN [rd |-> rd, src |-> [src EXCEPT !.pos = h.pos],
        err |-> IF h.err = EOF \/ h.err = ErrUnexpectedEOF THEN EOF
                ELSE "read header: " \o h.err,
        calls |-> 1, eng |-> 0, panic |-> FALSE,
        frame |-> FrameSeen(Len(h.got), 0, 0, h.err = "src",
                            IF h.err = EOF \/ h.err = ErrUnexpectedEOF THEN EOF
                            ELSE "read header: " \o h.err)]
  ELSE IF Uint32(h.got) = 0
  THEN [rd |-> rd, src |-> [src EXCEPT !.pos = h.pos], err |-> EOF, calls |-> 1,
        eng |-> 0, panic |-> FALSE, frame |-> FrameSeen(4, 0, 0, FALSE, EOF)]
  ELSE readFramePayload(rd, src, stage, Uint32(h.got),
         ReadFull(src.data, h.pos, Uint32(h.got), stage = "payload"))

\* readFrame: rd the Reader, src the source, stage the fault of this frame
\* read.  calls and eng count the ReadFull and Decompress calls made; frame
\* is what the frame read saw.
readFrame(rd, src, stage) ==
  readFrameHeader(rd, src, stage, ReadFull(src.data, src.pos, 4, stage = "header"))

\* What Read returns: m bytes read, e the error, out the bytes copied.
ReadDone(rd, src, m, e, out, calls, eng, frame, pnc) ==
  [rd |-> rd, src |-> src, n |-> m, err |-> e, out |-> out,
   calls |-> calls, eng |-> eng, frame |-> frame, panic |-> pnc]

\* The loop of Read: n = len(p), out the bytes copied into p so far
\* (totalRead = Len(out)), k the number of the next frame read of this call.
\* ReadLoopFrame is the loop body after readFrame returned f, ReadLoopCopy
\* the copy of toCopy bytes out of the buffer.
RECURSIVE ReadLoop(_, _, _, _, _, _, _, _, _)
RECURSIVE ReadLoopCopy(_, _, _, _, _, _, _, _, _, _)
RECURSIVE ReadLoopFrame(_, _, _, _, _, _, _)

ReadLoopCopy(rd, src, n, out, k, fault, calls, eng, frame, toCopy) ==
  ReadLoop([rd EXCEPT !.bufPos = @ + toCopy], src, n,
           out \o SubSeq(rd.buf, rd.bufPos + 1, rd.bufPos + toCopy),
           k, fault, calls, eng, frame)

\* A loop body that returns the outcome of a failed frame read at once,
\* together with the count of the bytes copied so far.
ReadLoopFrame_ErrorWithBytes(f, n, out, k, fault, calls, eng) ==
  IF f.panic
  THEN ReadDone(f.rd, f.src, Len(out), Nil, out, calls + f.calls, eng + f.eng,
                f.frame, TRUE)
  ELSE IF f.err = EOF
  THEN ReadDone([f.rd EXCEPT !.eof = TRUE], f.src, Len(out), EOF, out,
                calls + f.calls, eng + f.eng, f.frame, FALSE)
  ELSE IF f.err # Nil
  THEN ReadDone([f.rd EXCEPT !.err = f.err], f.src, Len(out), f.err, out,
                calls + f.calls, eng + f.eng, f.frame, FALSE)
  ELSE ReadLoopCopy(f.rd, f.src, n, out, k + 1, fault, calls + f.calls,
                    eng + f.eng, f.frame,
                    Min(n - Len(out), f.rd.bufSize - f.rd.bufPos))

ReadLoopFrame(f, n, out, k, fault, calls, eng) ==
  IF f.panic
  THEN ReadDone(f.rd, f.src, Len(out), Nil, out, calls + f.calls, eng + f.eng,
                f.frame, TRUE)
  ELSE IF f.err = EOF
  THEN ReadDone([f.rd EXCEPT !.eof = TRUE], f.src,
                Len(out), IF Len(out) > 0 THEN Nil ELSE EOF, out,
                calls + f.calls, eng + f.eng, f.frame, FALSE)
  ELSE IF f.err # Nil
  THEN ReadDone([f.rd EXCEPT !.err = f.err], f.src,
                Len(out), IF Len(out) > 0 THEN Nil ELSE f.err, out,
                calls + f.calls, eng + f.eng, f.frame, FALSE)
  ELSE ReadLoopCopy(f.rd, f.src, n, out, k + 1, fault, calls + f.calls,
                    eng + f.eng, f.frame,
                    Min(n - Len(out), f.rd.bufSize - f.rd.bufPos))

ReadLoop(rd, src, n, out, k, fault, calls, eng, frame) ==
  IF ~(Len(out) < n) THEN ReadDone(rd, src, Len(out), Nil, out, calls, eng, frame, FALSE)
  ELSE IF rd.bufPos >= rd.bufSize
  THEN ReadLoopFrame(readFrame(rd, src, StageAt(fault, k)), n, out, k, fault, calls, eng)
  ELSE ReadLoopCopy(rd, src, n, out, k, fault, calls, eng, frame,
                    Min(n - Len(out), rd.bufSize - rd.bufPos))

\* A Read without the end-of-stream check at its top.
ReaderRead_NoEofCheck(rd, src, n, fault, frame) ==
  LET early(e) == [rd |-> rd, src |-> src, n |-> 0, err |-> e, out |-> <<>>,
                   calls |-> 0, eng |-> 0, frame |-> frame, panic |-> FALSE]
  IN IF rd.closed THEN early("read from closed Reader")
     ELSE IF rd.err # Nil THEN early(rd.err)
     ELSE ReadLoop(rd, src, n, <<>>, 1, fault, 0, 0, frame)

\* A Read without the sticky error check at its top.
ReaderRead_NoErrCheck(rd, src, n, fault, frame) ==
  LET early(e) == [rd |-> rd, src |-> src, n |-> 0, err |-> e, out |-> <<>>,
                   calls |-> 0, eng |-> 0, frame |-> frame, panic |-> FALSE]
  IN IF rd.closed THEN early("read from closed Reader")
     ELSE IF rd.eof THEN early(EOF)
     ELSE ReadLoop(rd, src, n, <<>>, 1, fault, 0, 0, frame)

\* A Read without the closed check at its top.
ReaderRead_NoClosedCheck(rd, src, n, fault, frame) ==
  LET early(e) == [rd |-> rd, src |-> src, n |-> 0, err |-> e, out |-> <<>>,
                   calls |-> 0, eng |-> 0, frame |-> frame, panic |-> FALSE]
  IN IF rd.err # Nil THEN early(rd.err)
     ELSE IF rd.eof THEN early(EOF)
     ELSE ReadLoop(rd, src, n, <<>>, 1, fault, 0, 0, frame)

\* A Read that returns after it has copied one byte.
ReaderRead_ShortRead(rd, src, n, fault, frame) ==
  LET early(e) == [rd |-> rd, src |-> src, n |-> 0, err |-> e, out |-> <<>>,
                   calls |-> 0, eng |-> 0, frame |-> frame, panic |-> FALSE]
  IN IF rd.closed THEN early("read from closed Reader")
     ELSE IF rd.err # Nil THEN early(rd.err)
     ELSE IF rd.eof THEN early(EOF)
     ELSE ReadLoop(rd, src, Min(n, 1), <<>>, 1, fault, 0, 0, frame)

ReaderRead(rd, src, n, fault, frame) ==
  LET early(e) == [rd |-> rd, src |-> src, n |-> 0, err |-> e, out |-> <<>>,
                   calls |-> 0, eng |-> 0, frame |-> frame, panic |-> FALSE]
  IN IF rd.closed THEN early("read from closed Reader")
     ELSE IF rd.err # Nil THEN early(rd.err)
     ELSE IF rd.eof THEN early(EOF)
     ELSE ReadLoop(rd, src, n, <<>>, 1, fault, 0, 0, frame)

ReaderClose(rd) ==
  IF rd.closed THEN [rd |-> rd, err |-> Nil]
  ELSE [rd |-> [rd EXCEPT !.closed = TRUE, !.decompressor = Nil], err |-> Nil]

\* A Reset that keeps the decompressed bytes of the previous source.
ReaderReset_KeepBuffer(rd, newR) ==
  IF newR = Nil THEN [rd |-> rd, err |-> "nil reader"]
  ELSE [rd |-> [rd EXCEPT !.decompressor = IF rd.closed THEN "ctx" ELSE @,
                          !.r = newR, !.closed = FALSE, !.eof = FALSE, !.err = Nil],
        err |-> Nil]

ReaderReset(rd, newR) ==
  IF newR = Nil THEN [rd |-> rd, err |-> "nil reader"]
  ELSE [rd |-> [rd EXCEPT !.decompressor = IF rd.closed THEN "ctx" ELSE @,
                          !.r = newR, !.buf = <<>>, !.bufPos = 0, !.bufSize = 0,
                          !.closed = FALSE, !.eof = FALSE, !.err = Nil],
        err |-> Nil]

\* ------------------------------------------------------- idle components
\* Values of the components a specification does not exercise.
IdleReader ==
  [r |-> Nil, decompressor |-> Nil, buf |-> <<>>, bufPos |-> 0, bufSize |-> 0,
   closed |-> TRUE, eof |-> FALSE, err |-> Nil]

ReaderIdle ==
  /\ reader = IdleReader
  /\ source = [data |-> <<>>, pos |-> 0, start |-> 0, cut |-> 0, extra |-> FALSE]
  /\ delivered = <<>>
  /\ srcCalls = 0
  /\ engCalls = 0
  /\ rret = [op |-> "none", n |-> 0, err |-> Nil]
  /\ lastFrame = NoFrame
  /\ rresets = 0
  /\ phase = "write"

\* No instance of the pair is made.
NoRun == [obj |-> IdleReader, io |-> <<>>, pos |-> 0, out |-> <<>>,
          ret |-> [op |-> "none", n |-> 0, err |-> Nil]]

NoInst ==
  [kind |-> "none",
   made |-> [i \in SinkIds |-> FALSE],
   run |-> [i \in SinkIds |-> NoRun],
   solo |-> [i \in SinkIds |-> NoRun],
   handle |-> [i \in SinkIds |-> 0],
   live |-> {},
   created |-> 0,
   last |-> "none",
   faults |-> 0,
   resets |-> 0,
   crashed |-> FALSE]

TwoIdle == inst = NoInst

\* No call is under way.
NoLoop ==
  [op |-> "none", at |-> "idle",
   wr |-> NewWriter("A", <<MinFrameSize>>).wr, sk |-> <<>>,
   rd |-> IdleReader,
   src |-> [data |-> <<>>, pos |-> 0, start |-> 0, cut |-> 0, extra |-> FALSE],
   rest |-> <<>>, written |-> 0, n |-> 0, out |-> <<>>, k |-> 1, fault |-> NoFault,
   ret |-> [n |-> 0, err |-> Nil], iters |-> 0, calls |-> 0, total |-> 0, faults |-> 0,
   was |-> [wr |-> NewWriter("A", <<MinFrameSize>>).wr, sk |-> <<>>, rd |-> IdleReader,
            src |-> [data |-> <<>>, pos |-> 0, start |-> 0, cut |-> 0, extra |-> FALSE],
            p |-> <<>>],
   panic |-> FALSE]

LoopIdle == loop = NoLoop

Contexts == {"compressor", "decompressor"}
Callers == 1..NCallers

\* The mutex of a context holds the caller that locked it, or Unlocked.
Unlocked == 0

\* late: the context had been closed when the call was made.  orig: for a
\* decompression of what the caller's own compression returned, the input
\* of that compression (<<>> otherwise).  fault: the engine was made to fail.
NoCall == [op |-> "none", c |-> "compressor", src |-> <<>>, late |-> FALSE, orig |-> <<>>]
NoResult ==
  [op |-> "none", src |-> <<>>, out |-> <<>>, err |-> Nil, late |-> FALSE,
   orig |-> <<>>, fault |-> FALSE]

NoFn ==
  [op |-> "none", w |-> 0, arg |-> <<>>, out |-> <<>>, err |-> Nil, panic |-> FALSE,
   called |-> FALSE, fault |-> FALSE, rt |-> FALSE, orig |-> <<>>, origw |-> 0]

FnIdle == fn = NoFn

CtxIdle ==
  /\ ctx = [c \in Contexts |-> "ctx"]
  /\ mu = [c \in Contexts |-> Unlocked]
  /\ pc = [p \in Callers |-> "idle"]
  /\ call = [p \in Callers |-> NoCall]
  /\ res = [p \in Callers |-> NoResult]
  /\ freed = [c \in Contexts |-> 0]
  /\ crashed = FALSE

\* Empty sinks and no call made.
WriterEnv ==
  /\ sink = [s \in SinkIds |-> <<>>]
  /\ accepted = [s \in SinkIds |-> <<>>]
  /\ sinkFailed = [s \in SinkIds |-> FALSE]
  /\ wfaults = 0
  /\ wresets = 0
  /\ period = [base |-> 0, writeErr |-> Nil, closeErr |-> "open"]

WriterStart(F) ==
  /\ writer = NewWriter("A", <<F>>).wr
  /\ made = Made("A", <<F>>, NewWriter("A", <<F>>))
  /\ wret = [op |-> "NewWriter", n |-> 0, err |-> Nil]
  /\ WriterEnv

\* ------------------------------------------------ Writer actions (SpecW)
FlushStages == {"compress", "header", "payload"}
WriteFaults == {NoFault} \cup [at : 1..2, stage : FlushStages]
CloseFaults == {NoFault} \cup [at : {1}, stage : FlushStages \cup {"marker"}]
ResetFaults == {NoFault} \cup [at : {1}, stage : FlushStages]

Inputs == SeqsUpTo(DataBytes, MaxWriteLen)

\* The next n bytes of the alternating byte stream 1, 0, 1, 0, ... of which
\* `from` bytes have been taken: what the Writer on its own is given, its
\* code copying and compressing the bytes of a Write without looking at them.
Pattern(from, n) == [i \in 1..n |-> (from + i) % 2]

TotalAccepted == Len(accepted["A"]) + Len(accepted["B"])

\* The effect of a Writer call with outcome o on the environment.
WriterEffect(op, o, taken, fault) ==
  /\ writer' = o.wr
  /\ sink' = [sink EXCEPT ![writer.w] = o.sk]
  /\ accepted' = [accepted EXCEPT ![writer.w] = @ \o taken]
  /\ sinkFailed' = [sinkFailed EXCEPT ![writer.w] = @ \/ o.sinkErr]
  /\ wret' = [op |-> op, n |-> o.n, err |-> o.err]
  /\ made' = made
  /\ wfaults' = IF fault = NoFault THEN wfaults ELSE wfaults + 1
  /\ crashed' = (crashed \/ o.panic)

\* A fault is injected only where it changes the outcome of the call.
Write(p, fault) ==
  LET o == WriterWrite(writer, sink[writer.w], p, fault)
  IN /\ ~crashed
     /\ TotalAccepted + Len(p) <= MaxTotal
     /\ fault # NoFault =>
          wfaults < MaxFaults /\ o # WriterWrite(writer, sink[writer.w], p, NoFault)
     /\ WriterEffect("Write", o, Take(p, o.n), fault)
     /\ wresets' = wresets
     /\ period' = IF ~writer.closed /\ writer.err = Nil /\ o.err # Nil
                  THEN [period EXCEPT !.writeErr = o.err] ELSE period

Close(fault) ==
  LET o == WriterClose(writer, sink[writer.w], fault)
  IN /\ ~crashed
     /\ fault # NoFault =>
          wfaults < MaxFaults /\ o # WriterClose(writer, sink[writer.w], NoFault)
     /\ WriterEffect("Close", o, <<>>, fault)
     /\ wresets' = wresets
     /\ period' = IF ~writer.closed THEN [period EXCEPT !.closeErr = o.err] ELSE period

Reset(newW, fault) ==
  LET o == WriterReset(writer, sink[writer.w], newW, fault)
  IN /\ ~crashed
     /\ newW # Nil => wresets < MaxResets
     /\ fault # NoFault =>
          wfaults < MaxFaults /\ o # WriterReset(writer, sink[writer.w], newW, NoFault)
     /\ WriterEffect("Reset", o, <<>>, fault)
     /\ wresets' = IF newW = Nil THEN wresets ELSE wresets + 1
     /\ period' = IF newW # Nil /\ o.err = Nil /\ ~o.panic
                  THEN [base |-> Len(sink'[newW]), writeErr |-> Nil, closeErr |-> "open"]
                  ELSE period

InitW ==
  /\ \E F \in FrameSizes : WriterStart(F)
  /\ ReaderIdle
  /\ CtxIdle
  /\ FnIdle
  /\ TwoIdle
  /\ LoopIdle

NextW ==
  \/ \E n \in 0..MaxWriteLen, fault \in WriteFaults :
       Write(Pattern(TotalAccepted, n), fault)
         /\ UNCHANGED <<rvars, fn, inst, loop, ctx, mu, pc, call, res, freed>>
  \/ \E fault \in CloseFaults :
       Close(fault) /\ UNCHANGED <<rvars, fn, inst, loop, ctx, mu, pc, call, res, freed>>
  \/ \E newW \in SinkIds \cup {Nil}, fault \in ResetFaults :
       Reset(newW, fault) /\ UNCHANGED <<rvars, fn, inst, loop, ctx, mu, pc, call, res, freed>>

SpecW == InitW /\ [][NextW]_vars

\* ------------------------------------- making the Writer (SpecNew)
\* The options of a NewWriter call: none, or one WithFrameSize with a size
\* in the range, just below it or just above it.
WriterOpts == {<<>>} \cup {<<size>> : size \in (MinFrameSize - 1)..(MaxFrameSize + 1)}

\* NewWriter is called until it returns a Writer.
New(w, opts) ==
  \E o \in {NewWriter(w, opts)} :
     /\ ~made.ok
     /\ writer' = IF o.ok THEN o.wr ELSE Nil
     /\ made' = Made(w, opts, o)
     /\ wret' = [op |-> "NewWriter", n |-> 0, err |-> o.err]
     /\ UNCHANGED <<sink, accepted, sinkFailed, wfaults, wresets, period>>

InitNew ==
  /\ writer = Nil
  /\ made = NoAttempt
  /\ wret = [op |-> "none", n |-> 0, err |-> Nil]
  /\ WriterEnv
  /\ ReaderIdle
  /\ CtxIdle
  /\ FnIdle
  /\ TwoIdle
  /\ LoopIdle

NextNew ==
  \/ \E w \in {"A", Nil}, opts \in WriterOpts : New(w, opts) /\ UNCHANGED <<rvars, fn, inst, loop, cvars>>
  \/ made.ok /\ NextW

SpecNew == InitNew /\ [][NextNew]_vars

\* ------------------------------------- Writer, then Reader (Spec)
\* A well-formed frame put behind the end marker of the stream.
Trailer == LittleEndian4(2) \o ZL_compress(<<1>>)

ReadFaults == {NoFault} \cup [at : 1..2, stage : {"header", "payload", "engine"}]

\* The sink's bytes, with the last k removed or the trailer added, become
\* the source of a new Reader, once Close has returned nil.
Handoff(k, extra) ==
  /\ phase = "write"
  /\ writer.closed
  /\ period.closeErr = Nil
  /\ k \in 0..Len(sink["A"])
  /\ extra => k = 0
  /\ source' = [data |-> SubSeq(sink["A"], 1, Len(sink["A"]) - k)
                          \o (IF extra THEN Trailer ELSE <<>>),
                pos |-> 0, start |-> 0, cut |-> k, extra |-> extra]
  /\ reader' = NewReader("src").rd
  /\ rret' = [op |-> "NewReader", n |-> 0, err |-> Nil]
  /\ phase' = "read"
  /\ UNCHANGED <<delivered, srcCalls, engCalls, lastFrame, rresets>>

Read(n, fault) ==
  \E o \in {ReaderRead(reader, source, n, fault, lastFrame)} :
     /\ phase = "read"
     /\ ~crashed
     /\ fault # NoFault => o # ReaderRead(reader, source, n, NoFault, lastFrame)
     /\ reader' = o.rd
     /\ source' = o.src
     /\ delivered' = delivered \o o.out
     /\ srcCalls' = srcCalls + o.calls
     /\ engCalls' = engCalls + o.eng
     /\ rret' = [op |-> "Read", n |-> o.n, err |-> o.err]
     /\ lastFrame' = o.frame
     /\ crashed' = o.panic
     /\ UNCHANGED <<rresets, phase>>

RClose ==
  LET o == ReaderClose(reader)
  IN /\ phase = "read"
     /\ ~crashed
     /\ reader' = o.rd
     /\ rret' = [op |-> "Close", n |-> 0, err |-> o.err]
     /\ UNCHANGED <<source, delivered, srcCalls, engCalls, lastFrame, rresets, phase,
                    crashed>>

\* newR: Nil, "continue" (the source the Reader is bound to, where it
\* stands) or "rewind" (a new source over the same bytes).
RReset(newR) ==
  LET o == ReaderReset(reader, IF newR = Nil THEN Nil ELSE "src")
  IN /\ phase = "read"
     /\ ~crashed
     /\ newR # Nil => rresets < MaxReaderResets
     /\ reader' = o.rd
     /\ rret' = [op |-> "Reset", n |-> 0, err |-> o.err]
     /\ IF newR = Nil
        THEN UNCHANGED <<source, delivered, srcCalls, engCalls, lastFrame, rresets>>
        ELSE /\ source' = IF newR = "rewind"
                          THEN [source EXCEPT !.pos = 0, !.start = 0]
                          ELSE [source EXCEPT !.start = source.pos]
             /\ delivered' = <<>>
             /\ srcCalls' = 0
             /\ engCalls' = 0
             /\ lastFrame' = NoFrame
             /\ rresets' = rresets + 1
     /\ UNCHANGED <<phase, crashed>>

Init ==
  /\ \E F \in FrameSizes : WriterStart(F)
  /\ ReaderIdle
  /\ CtxIdle
  /\ FnIdle
  /\ TwoIdle
  /\ LoopIdle

Next ==
  \/ \E p \in Inputs :
       /\ phase = "write"
       /\ TotalAccepted + Len(p) <= MaxStream
       /\ Write(p, NoFault)
       /\ UNCHANGED <<rvars, fn, inst, loop, ctx, mu, pc, call, res, freed>>
  \/ \E fault \in CloseFaults :
       /\ phase = "write"
       /\ Close(fault)
       /\ UNCHANGED <<rvars, fn, inst, loop, ctx, mu, pc, call, res, freed>>
  \/ \E k \in 0..(4 + (MaxStream + 1) * 6), extra \in BOOLEAN :
       Handoff(k, extra) /\ UNCHANGED <<wvars, fn, inst, loop, cvars>>
  \/ \E n \in 0..MaxReadLen, fault \in ReadFaults :
       Read(n, fault) /\ UNCHANGED <<wvars, fn, inst, loop, ctx, mu, pc, call, res, freed>>
  \/ RClose /\ UNCHANGED <<wvars, fn, inst, loop, ctx, mu, pc, call, res, freed>>
  \/ \E newR \in {Nil, "continue", "rewind"} :
       RReset(newR) /\ UNCHANGED <<wvars, fn, inst, loop, ctx, mu, pc, call, res, freed>>

Spec == Init /\ [][Next]_vars

\* ------------------------- callers on a Compressor / Decompressor (SpecCtx)
\* A caller runs one method at a time: "idle", then "lock" (at mu.Lock()),
\* "engine" (the lock held and the C call on the handle in flight), then
\* "idle" again with the deferred mu.Unlock() done.
CtxOps ==
  [compressor |-> {"Compress", "CompressNumeric", "Close"},
   decompressor |-> {"Decompress", "DecompressNumeric", "Close"}]

\* empty, not a frame, a frame
CtxInputs == {<<>>, <<0>>, <<1, 1>>}

\* The method op on the context whose ctx field is c.
Method(op, c, src, engineFails) ==
  CASE op = "Compress" -> CompressorCompress(c, src, engineFails)
    [] op = "CompressNumeric" -> CompressorCompressNumeric(c, src, engineFails)
    [] op = "Decompress" -> DecompressorDecompress(c, src, engineFails)
    [] op = "DecompressNumeric" -> DecompressorDecompressNumeric(c, src, engineFails)

\* The method gets as far as the C call on the handle: the checks of the
\* wrapper before it have passed.
ReachesEngine(op, c, src) ==
  /\ c # Nil
  /\ Len(src) # 0
  /\ op \in {"Decompress", "DecompressNumeric"} =>
       GetDecompressedSize(src).err = Nil /\ GetDecompressedSize(src).n # 0

\* The decompression that undoes a compression method.
Inverse == [Compress |-> "Decompress", CompressNumeric |-> "DecompressNumeric"]

\* src is kept with the result of a compression that succeeded.
Returned(p, op, r, engineFails) ==
  [op |-> op, src |-> IF op \in DOMAIN Inverse /\ r.err = Nil THEN call[p].src ELSE <<>>,
   out |-> r.out, err |-> r.err, late |-> call[p].late,
   orig |-> call[p].orig, fault |-> engineFails]

\* What a caller may pass besides CtxInputs: the bytes its last call, a
\* compression, returned.
OwnOutput(p) ==
  IF res[p].op \in DOMAIN Inverse /\ res[p].err = Nil THEN {res[p].out} ELSE {}

IsRoundTrip(p, op, src) ==
  /\ res[p].op \in DOMAIN Inverse
  /\ res[p].err = Nil
  /\ op = Inverse[res[p].op]
  /\ src = res[p].out

\* The caller enters a method.  The empty-input check comes before the lock.
CtxCall(p, op, c, src) ==
  /\ ~crashed
  /\ pc[p] = "idle"
  /\ op \in CtxOps[c]
  /\ IF op # "Close" /\ Len(src) = 0
     THEN /\ res' = [res EXCEPT ![p] = [NoResult EXCEPT !.op = op, !.err = ErrEmptyInput,
                                                         !.late = ctx[c] = Nil]]
          /\ UNCHANGED <<pc, call>>
     ELSE /\ pc' = [pc EXCEPT ![p] = "lock"]
          /\ call' = [call EXCEPT ![p] = [op |-> op, c |-> c,
                                          src |-> IF op = "Close" THEN <<>> ELSE src,
                                          late |-> ctx[c] = Nil,
                                          orig |-> IF IsRoundTrip(p, op, src)
                                                   THEN res[p].src ELSE <<>>]]
          /\ res' = [res EXCEPT ![p] = NoResult]
  /\ UNCHANGED <<ctx, mu, freed, crashed>>

\* A Close that frees the handle without looking at the ctx field.
CtxClose_NoNilCheck(p) ==
  /\ call[p].op = "Close"
  /\ ctx' = [ctx EXCEPT ![call[p].c] = Nil]
  /\ freed' = [freed EXCEPT ![call[p].c] = @ + 1]
  /\ pc' = [pc EXCEPT ![p] = "idle"]
  /\ res' = [res EXCEPT ![p] = [NoResult EXCEPT !.op = "Close", !.late = call[p].late]]
  /\ call' = [call EXCEPT ![p] = NoCall]
  /\ UNCHANGED <<mu, crashed>>

\* Close from the lock taken to its return, the deferred Unlock included.
CtxClose(p) ==
  /\ call[p].op = "Close"
  /\ ctx' = [ctx EXCEPT ![call[p].c] = Nil]
  /\ freed' = [freed EXCEPT ![call[p].c] = IF ctx[call[p].c] # Nil THEN @ + 1 ELSE @]
  /\ pc' = [pc EXCEPT ![p] = "idle"]
  /\ res' = [res EXCEPT ![p] = [NoResult EXCEPT !.op = "Close", !.late = call[p].late]]
  /\ call' = [call EXCEPT ![p] = NoCall]
  /\ UNCHANGED <<mu, crashed>>

\* A method from the lock taken to the C call on the handle: it panics or
\* returns early (the deferred Unlock included), or enters the engine with
\* the mutex held.
CtxEnter(p) ==
  /\ call[p].op # "Close"
  /\ \E r \in {Method(call[p].op, ctx[call[p].c], call[p].src, FALSE)} :
       IF r.panic
       THEN /\ crashed' = TRUE
            /\ pc' = [pc EXCEPT ![p] = "idle"]
            /\ res' = [res EXCEPT ![p] = [NoResult EXCEPT !.op = "panic",
                                                           !.late = call[p].late]]
            /\ call' = [call EXCEPT ![p] = NoCall]
            /\ UNCHANGED <<ctx, mu, freed>>
       ELSE IF ~ReachesEngine(call[p].op, ctx[call[p].c], call[p].src)
       THEN /\ pc' = [pc EXCEPT ![p] = "idle"]
            /\ res' = [res EXCEPT ![p] = Returned(p, call[p].op, r, FALSE)]
            /\ call' = [call EXCEPT ![p] = NoCall]
            /\ UNCHANGED <<ctx, mu, freed, crashed>>
       ELSE /\ pc' = [pc EXCEPT ![p] = "engine"]
            /\ mu' = [mu EXCEPT ![call[p].c] = p]
            /\ UNCHANGED <<ctx, call, res, freed, crashed>>

\* A Close that takes no lock, among methods that do.
CtxLock_CloseSkipsLock(p) ==
  /\ ~crashed
  /\ pc[p] = "lock"
  /\ CtxClose(p) \/ (mu[call[p].c] = Unlocked /\ CtxEnter(p))

\* A method that takes no lock.
CtxLock_NoMutex(p) ==
  /\ ~crashed
  /\ pc[p] = "lock"
  /\ CtxClose(p) \/ CtxEnter(p)

\* mu.Lock(): the caller waits until the mutex of its context is free, and
\* then runs, with nobody else on the context, up to the C call or to its
\* return.
CtxLock(p) ==
  /\ ~crashed
  /\ pc[p] = "lock"
  /\ mu[call[p].c] = Unlocked
  /\ CtxClose(p) \/ CtxEnter(p)

\* A return computed from the input of another caller in progress on the
\* context: an input buffer shared between the callers.
CtxReturn_SharedInput(p, engineFails) ==
  /\ ~crashed
  /\ pc[p] = "engine"
  /\ \E q \in Callers :
       /\ q = p \/ (pc[q] # "idle" /\ call[q].op = call[p].op)
       /\ res' = [res EXCEPT ![p] =
                    Returned(p, call[p].op,
                             Method(call[p].op, ctx[call[p].c], call[q].src, engineFails),
                             engineFails)]
  /\ mu' = [mu EXCEPT ![call[p].c] = Unlocked]
  /\ pc' = [pc EXCEPT ![p] = "idle"]
  /\ call' = [call EXCEPT ![p] = NoCall]
  /\ UNCHANGED <<ctx, freed, crashed>>

\* The C call returns, the method returns and unlocks.
CtxReturn(p, engineFails) ==
  /\ ~crashed
  /\ pc[p] = "engine"
  /\ res' = [res EXCEPT ![p] =
               Returned(p, call[p].op,
                        Method(call[p].op, ctx[call[p].c], call[p].src, engineFails),
                        engineFails)]
  /\ mu' = [mu EXCEPT ![call[p].c] = Unlocked]
  /\ pc' = [pc EXCEPT ![p] = "idle"]
  /\ call' = [call EXCEPT ![p] = NoCall]
  /\ UNCHANGED <<ctx, freed, crashed>>

InitCtx ==
  /\ WriterStart(MinFrameSize)
  /\ ReaderIdle
  /\ CtxIdle
  /\ FnIdle
  /\ TwoIdle
  /\ LoopIdle

NextCtx ==
  \/ \E p \in Callers, c \in Contexts :
       \E op \in CtxOps[c] :
         \E src \in CtxInputs \cup {x \in OwnOutput(p) : IsRoundTrip(p, op, x)} :
           CtxCall(p, op, c, src) /\ UNCHANGED <<wvars, fn, inst, loop, rvars>>
  \/ \E p \in Callers : CtxLock(p) /\ UNCHANGED <<wvars, fn, inst, loop, rvars>>
  \/ \E p \in Callers, engineFails \in BOOLEAN :
       CtxReturn(p, engineFails) /\ UNCHANGED <<wvars, fn, inst, loop, rvars>>

SpecCtx == InitCtx /\ [][NextCtx]_vars

\* A goroutine that can run does run, and one waiting at Lock gets the
\* mutex in the end (sync.Mutex hands it to a starving waiter).
FairSpecCtx ==
  /\ SpecCtx
  /\ \A p \in Callers :
       /\ SF_vars(CtxLock(p) /\ UNCHANGED <<wvars, fn, inst, loop, rvars>>)
       /\ WF_vars(\E engineFails \in BOOLEAN :
                    CtxReturn(p, engineFails) /\ UNCHANGED <<wvars, fn, inst, loop, rvars>>)

\* ----------------------- entry points called one after another (SpecFn)
\* A caller calls the compress and decompress entry points one at a time:
\* the one-shot functions, and the methods of one Compressor and one
\* Decompressor that it keeps for all its calls.
FnBytes == SeqsUpTo(DataBytes, MaxFnLen)

\* Two elements of each width, apart in their first byte and with the last
\* byte set, so that the order of the bytes of an element shows.
Elements(w) ==
  {[i \in 1..w |-> IF i = 1 THEN b ELSE IF i = w THEN 1 ELSE 0] : b \in DataBytes}

Slices(w) == SeqsUpTo(Elements(w), MaxElems)

ByteCompressOps == {"Compress", "CompressorCompress"}
ByteDecompressOps == {"Decompress", "DecompressorDecompress"}
NumCompressOps == {"CompressNumeric", "CompressorCompressNumeric"}
NumDecompressOps == {"DecompressNumeric", "DecompressorDecompressNumeric"}

\* The entry points that undo an entry point.
FnInverse ==
  [Compress |-> ByteDecompressOps, CompressorCompress |-> ByteDecompressOps,
   CompressNumeric |-> NumDecompressOps, CompressorCompressNumeric |-> NumDecompressOps]

FnApply(op, w, arg, engineFails) ==
  CASE op = "Compress" -> Compress(arg, engineFails)
    [] op = "Decompress" -> Decompress(arg, engineFails)
    [] op = "CompressorCompress" -> CompressorCompress(ctx["compressor"], arg, engineFails)
    [] op = "DecompressorDecompress" ->
         DecompressorDecompress(ctx["decompressor"], arg, engineFails)
    [] op = "CompressNumeric" -> CompressNumeric(arg, engineFails)
    [] op = "DecompressNumeric" -> DecompressNumeric(w, arg, engineFails)
    [] op = "CompressorCompressNumeric" ->
         CompressorCompressNumericOf(ctx["compressor"], arg, engineFails)
    [] op = "DecompressorDecompressNumeric" ->
         DecompressorDecompressNumericAs(ctx["decompressor"], w, arg, engineFails)
    [] op = "BytesToTypedSlice" -> BytesToTypedSlice(arg, w)

\* The entry point calls into the native library: each one returns on an
\* empty input before its first such call (NewCCtx, NewDCtx,
\* GetDecompressedSize, NewTypedRefNumeric or CompressBound), and makes that
\* call otherwise.  BytesToTypedSlice is Go code only.
FnCallsNative(op, arg) ==
  IF op = "BytesToTypedSlice" THEN FALSE ELSE Len(arg) # 0

\* arg is what the call before, a compression that op undoes, returned.
IsFnRoundTrip(op, arg) ==
  /\ fn.op \in DOMAIN FnInverse
  /\ fn.err = Nil
  /\ ~fn.panic
  /\ op \in FnInverse[fn.op]
  /\ arg = fn.out

FnCall(op, w, arg, engineFails) ==
  \E r \in {FnApply(op, w, arg, engineFails)}, rt \in {IsFnRoundTrip(op, arg)} :
     /\ ~crashed
     /\ fn' = [op |-> op, w |-> w, arg |-> arg, out |-> r.out, err |-> r.err,
               panic |-> r.panic, called |-> FnCallsNative(op, arg),
               fault |-> engineFails, rt |-> rt,
               orig |-> IF rt THEN fn.arg ELSE <<>>,
               origw |-> IF rt THEN fn.w ELSE 0]
     /\ crashed' = (crashed \/ r.panic)
     /\ UNCHANGED <<wvars, rvars, inst, loop, ctx, mu, pc, call, res, freed>>

InitFn ==
  /\ WriterStart(MinFrameSize)
  /\ ReaderIdle
  /\ CtxIdle
  /\ FnIdle
  /\ TwoIdle
  /\ LoopIdle

NextFn ==
  \/ \E op \in ByteCompressOps \cup ByteDecompressOps, src \in FnBytes,
         engineFails \in BOOLEAN :
       FnCall(op, 0, src, engineFails)
  \/ \E op \in NumCompressOps, w \in Widths :
       \E data \in Slices(w), engineFails \in BOOLEAN :
          FnCall(op, w, data, engineFails)
  \/ \E op \in NumDecompressOps, w \in Widths, src \in FnBytes, engineFails \in BOOLEAN :
       FnCall(op, w, src, engineFails)
  \/ \E op \in ByteDecompressOps \cup NumDecompressOps, engineFails \in BOOLEAN :
       /\ fn.op \in DOMAIN FnInverse
       /\ fn.err = Nil
       /\ op \in FnInverse[fn.op]
       /\ \E w \in IF op \in NumDecompressOps THEN Widths ELSE {0} :
            FnCall(op, w, fn.out, engineFails)
  \/ \E w \in Widths, n \in 0..MaxBuf :
       FnCall("BytesToTypedSlice", w, Pattern(0, n), FALSE)

SpecFn == InitFn /\ [][NextFn]_vars

\* ------------------------- engine failures in every component (SpecFail)
\* One caller that either calls the functions and context methods, or uses
\* a Writer, whose Writes may meet a failing engine, and then a Reader.
\* The two families share no state, so a behaviour holds one of them.
CompressFaults == [at : 1..2, stage : {"compress"}]

NextFail ==
  \/ fn = NoFn /\ Next
  \/ \E p \in Inputs, fault \in CompressFaults :
       /\ fn = NoFn
       /\ phase = "write"
       /\ TotalAccepted + Len(p) <= MaxTotal
       /\ Write(p, fault)
       /\ UNCHANGED <<rvars, fn, inst, loop, ctx, mu, pc, call, res, freed>>
  \/ InitFn /\ NextFn
  \/ fn # NoFn /\ NextFn

SpecFail == Init /\ [][NextFail]_vars

\* ------------------------------------ calls with a nil argument (SpecNil)
\* A Writer, whose sink and engine may fail, then a Reader over the bytes
\* the sink received; among their operations the caller calls NewWriter,
\* NewReader and the two Reset methods with nil.
NilNewWriter(opts) ==
  \E o \in {NewWriter(Nil, opts)} :
     /\ phase = "write"
     /\ ~crashed
     /\ wret' = [op |-> "NewWriter", n |-> 0, err |-> o.err]
     /\ writer' = IF o.ok THEN o.wr ELSE writer
     /\ UNCHANGED <<sink, accepted, sinkFailed, wfaults, wresets, made, period, crashed>>

NilNewReader ==
  \E o \in {NewReader(Nil)} :
     /\ phase = "read"
     /\ ~crashed
     /\ rret' = [op |-> "NewReader", n |-> 0, err |-> o.err]
     /\ reader' = IF o.ok THEN o.rd ELSE reader
     /\ UNCHANGED <<source, delivered, srcCalls, engCalls, lastFrame, rresets, phase,
                    crashed>>

NextNil ==
  \/ \E p \in Inputs, fault \in WriteFaults :
       /\ phase = "write"
       /\ TotalAccepted + Len(p) <= MaxStream
       /\ Write(p, fault)
       /\ UNCHANGED <<rvars, fn, inst, loop, ctx, mu, pc, call, res, freed>>
  \/ \E fault \in CloseFaults :
       /\ phase = "write"
       /\ Close(fault)
       /\ UNCHANGED <<rvars, fn, inst, loop, ctx, mu, pc, call, res, freed>>
  \/ /\ phase = "write"
     /\ Reset(Nil, NoFault)
     /\ UNCHANGED <<rvars, fn, inst, loop, ctx, mu, pc, call, res, freed>>
  \/ \E opts \in WriterOpts :
       NilNewWriter(opts) /\ UNCHANGED <<rvars, fn, inst, loop, ctx, mu, pc, call, res, freed>>
  \/ Handoff(0, FALSE) /\ UNCHANGED <<wvars, fn, inst, loop, cvars>>
  \/ NilNewReader /\ UNCHANGED <<wvars, fn, inst, loop, ctx, mu, pc, call, res, freed>>
  \/ \E n \in 0..MaxReadLen, fault \in ReadFaults :
       Read(n, fault) /\ UNCHANGED <<wvars, fn, inst, loop, ctx, mu, pc, call, res, freed>>
  \/ RClose /\ UNCHANGED <<wvars, fn, inst, loop, ctx, mu, pc, call, res, freed>>
  \/ \E newR \in {Nil, "continue", "rewind"} :
       RReset(newR) /\ UNCHANGED <<wvars, fn, inst, loop, ctx, mu, pc, call, res, freed>>

SpecNil == Init /\ [][NextNil]_vars

\* ------------------------------------------ two instances (SpecTwo)
\* Two Writers, or two Readers, each made by its own constructor call on a
\* sink or source of its own and each used by a thread of its own.  The
\* instances are named after their sinks.  An operation runs as one step:
\* what it reads and writes is the instance, its sink or source and the
\* native context behind its handle.
\*
\* The engine's allocator: a handle that no context created before has.
ZL_create(created) == created + 1

\* A NewCCtx that hands out one context, created once for the package.
NewCCtx_Shared(created) ==
  1

\* cgo.NewCCtx and cgo.NewDCtx: each call creates a context.
NewCCtx(created) ==
  ZL_create(created)

NewDCtx(created) ==
  ZL_create(created)

NewContext(kind, created) ==
  IF kind = "writers" THEN NewCCtx(created) ELSE NewDCtx(created)

\* The frame of the bytes b, as a sound Writer emits it.
StreamFrame(b) == LittleEndian4(Len(ZL_compress(b))) \o ZL_compress(b)

\* The bytes of the two sources: two frames and the marker; one frame cut
\* short in its payload.
TwoStream(i) ==
  IF i = "A" THEN StreamFrame(<<1, 0>>) \o StreamFrame(<<1>>) \o <<0, 0, 0, 0>>
  ELSE StreamFrame(<<0, 1>>) \o Take(StreamFrame(<<0, 1, 1>>), 6)

\* The context field of the instance's Compressor or Decompressor.
CtxField(kind, obj) == IF kind = "writers" THEN obj.compressor ELSE obj.decompressor

WithCtx(kind, obj, c) ==
  IF kind = "writers" THEN [obj EXCEPT !.compressor = c]
  ELSE [obj EXCEPT !.decompressor = c]

\* What the instance finds behind its handle: nothing when its context
\* field is nil, its context when the handle is live.  A handle that was
\* freed is a dangling pointer: the call may work or bring the process down.
Resolve(i) ==
  IF CtxField(inst.kind, inst.run[i].obj) = Nil THEN {Nil}
  ELSE IF inst.handle[i] \in inst.live THEN {"ctx"}
  ELSE {"ctx", Nil}

WriterApply(op, wr, sk, p, fault) ==
  CASE op = "Write" -> WriterWrite(wr, sk, p, fault)
    [] op = "Close" -> WriterClose(wr, sk, fault)
    [] op = "Reset" -> WriterReset(wr, sk, wr.w, fault)

\* One operation on an instance in the state r: n the length of the buffer
\* of a Write or Read.  A Write takes the next n bytes of the instance's
\* input.
TwoApply(kind, op, r, n, fault) ==
  IF kind = "writers"
  THEN CHOOSE x \in
         {[run |-> [obj |-> o.wr, io |-> o.sk, pos |-> 0,
                    out |-> r.out \o Take(Pattern(Len(r.out), n), o.n),
                    ret |-> [op |-> op, n |-> o.n, err |-> o.err]],
           panic |-> o.panic] :
            o \in {WriterApply(op, r.obj, r.io, Pattern(Len(r.out), n), fault)}} : TRUE
  ELSE IF op = "Read"
  THEN CHOOSE x \in
         {[run |-> [obj |-> o.rd, io |-> r.io, pos |-> o.src.pos,
                    out |-> r.out \o o.out,
                    ret |-> [op |-> op, n |-> o.n, err |-> o.err]],
           panic |-> o.panic] :
            o \in {ReaderRead(r.obj, [data |-> r.io, pos |-> r.pos, start |-> 0,
                                      cut |-> 0, extra |-> FALSE], n, fault, NoFrame)}} : TRUE
  ELSE CHOOSE x \in
         {[run |-> [obj |-> o.rd, io |-> r.io, pos |-> r.pos, out |-> r.out,
                    ret |-> [op |-> op, n |-> 0, err |-> o.err]],
           panic |-> FALSE] :
            o \in {IF op = "Close" THEN ReaderClose(r.obj) ELSE ReaderReset(r.obj, "src")}} : TRUE

TwoFaults(kind, op) ==
  IF kind = "writers"
  THEN IF op = "Write" THEN WriteFaults
       ELSE IF op = "Close" THEN CloseFaults ELSE {NoFault}
  ELSE IF op = "Read" THEN ReadFaults ELSE {NoFault}

\* NewWriter(sink i) or NewReader(source i).
TwoNew(i) ==
  /\ inst.kind # "none"
  /\ ~inst.made[i]
  /\ ~inst.crashed
  /\ \E r \in {[NoRun EXCEPT
                  !.obj = IF inst.kind = "writers"
                          THEN NewWriter(i, <<MinFrameSize>>).wr
                          ELSE NewReader("src").rd,
                  !.io = IF inst.kind = "writers" THEN <<>> ELSE TwoStream(i),
                  !.ret = [op |-> "New", n |-> 0, err |-> Nil]]} :
       inst' = [inst EXCEPT
                  !.made[i] = TRUE,
                  !.run[i] = r,
                  !.solo[i] = r,
                  !.handle[i] = NewContext(inst.kind, inst.created),
                  !.live = @ \cup {NewContext(inst.kind, inst.created)},
                  !.created = @ + 1,
                  !.last = i]

\* An operation on instance i, and the same operation on the instance run
\* alone.  A Close frees the handle, a Reset of a closed instance creates a
\* context.
TwoStep(i, op, n, fault) ==
  /\ inst.made[i]
  /\ ~inst.crashed
  /\ op = "Write" => Len(inst.run[i].out) + n <= MaxStream
  /\ op = "Reset" => inst.resets < MaxResets
  /\ fault # NoFault => inst.faults < MaxPairFaults
  /\ \E c \in Resolve(i) :
       \E o \in {TwoApply(inst.kind, op,
                          [inst.run[i] EXCEPT !.obj = WithCtx(inst.kind, @, c)], n, fault)},
          a \in {TwoApply(inst.kind, op, inst.solo[i], n, fault)},
          h \in {NewContext(inst.kind, inst.created)} :
         \E had \in {CtxField(inst.kind, inst.run[i].obj) # Nil},
            has \in {CtxField(inst.kind, o.run.obj) # Nil} :
           /\ fault # NoFault => a # TwoApply(inst.kind, op, inst.solo[i], n, NoFault)
           /\ inst' = [inst EXCEPT
                  !.run[i] = o.run,
                  !.solo[i] = a.run,
                  !.handle[i] = IF ~had /\ has THEN h ELSE @,
                  !.live = IF o.panic THEN @
                           ELSE IF had /\ ~has THEN @ \ {inst.handle[i]}
                           ELSE IF ~had /\ has THEN @ \cup {h}
                           ELSE @,
                  !.created = IF ~had /\ has THEN @ + 1 ELSE @,
                  !.last = i,
                  !.faults = IF fault = NoFault THEN @ ELSE @ + 1,
                  !.resets = IF op = "Reset" THEN @ + 1 ELSE @,
                  !.crashed = o.panic]

InitTwo ==
  /\ WriterStart(MinFrameSize)
  /\ ReaderIdle
  /\ CtxIdle
  /\ FnIdle
  /\ \E kind \in {"writers", "readers"} : inst = [NoInst EXCEPT !.kind = kind]
  /\ LoopIdle

NextTwo ==
  \/ \E i \in SinkIds : TwoNew(i) /\ UNCHANGED <<wvars, rvars, cvars, fn, loop>>
  \/ \E i \in SinkIds, n \in 0..MaxReadLen :
       \E op \in {IF inst.kind = "writers" THEN "Write" ELSE "Read"} :
         \E fault \in TwoFaults(inst.kind, op) :
           TwoStep(i, op, n, fault) /\ UNCHANGED <<wvars, rvars, cvars, fn, loop>>
  \/ \E i \in SinkIds, fault \in TwoFaults(inst.kind, "Close") :
       TwoStep(i, "Close", 0, fault) /\ UNCHANGED <<wvars, rvars, cvars, fn, loop>>
  \/ \E i \in SinkIds :
       TwoStep(i, "Reset", 0, NoFault) /\ UNCHANGED <<wvars, rvars, cvars, fn, loop>>

SpecTwo == InitTwo /\ [][NextTwo]_vars

\* ------------------------------ the loops of Write and Read (SpecLoop)
\* A Writer on a sink and a Reader on a source, with the calls of Write and
\* Read taken apart: the checks at the top of the call are one step and each
\* iteration of the loop, with the flush or frame read it makes, is one
\* step.  Close and Reset, between two calls, are one step each.
\*
\* The buffer of wr with the first toCopy bytes of p copied behind its
\* bufSize bytes.
WriteCopy(wr, p, toCopy) ==
  [wr EXCEPT
     !.buf = [i \in 1..wr.frameSize |->
                IF i > wr.bufSize /\ i <= wr.bufSize + toCopy
                THEN p[i - wr.bufSize] ELSE wr.buf[i]],
     !.bufSize = wr.bufSize + toCopy]

\* An iteration of the loop of Write that leaves a full buffer alone.
WriteIteration_NoFlush(wr, sk, p, written, stage) ==
  CHOOSE it \in
    {[wr |-> WriteCopy(wr, p, toCopy), sk |-> sk, rest |-> Drop(p, toCopy),
      written |-> written + toCopy, flushed |-> FALSE, done |-> FALSE, err |-> Nil,
      panic |-> FALSE] : toCopy \in {Min(Len(p), wr.frameSize - wr.bufSize)}} : TRUE

\* The iteration from the flush on: fl is what flush returned.
WriteIterationFlushed(fl, rest, written) ==
  IF fl.panic
  THEN [wr |-> fl.wr, sk |-> fl.sk, rest |-> rest, written |-> written,
        flushed |-> TRUE, done |-> TRUE, err |-> Nil, panic |-> TRUE]
  ELSE IF fl.err # Nil
  THEN [wr |-> [fl.wr EXCEPT !.err = fl.err], sk |-> fl.sk, rest |-> rest,
        written |-> written, flushed |-> TRUE, done |-> TRUE, err |-> fl.err,
        panic |-> FALSE]
  ELSE [wr |-> fl.wr, sk |-> fl.sk, rest |-> rest, written |-> written,
        flushed |-> TRUE, done |-> FALSE, err |-> Nil, panic |-> FALSE]

\* The iteration from the copy on: wr1 is the Writer with the bytes copied,
\* rest and written the input left and the count after the copy.
WriteIterationCopied(wr1, sk, rest, written, stage) ==
  IF wr1.bufSize = wr1.frameSize
  THEN CHOOSE it \in {WriteIterationFlushed(fl, rest, written) :
                        fl \in {flush(wr1, sk, stage)}} : TRUE
  ELSE [wr |-> wr1, sk |-> sk, rest |-> rest, written |-> written,
        flushed |-> FALSE, done |-> FALSE, err |-> Nil, panic |-> FALSE]

\* One iteration of the loop of Write, p the bytes left (not empty): what
\* it leaves, whether it flushed and whether it returns (done) with err.
\* Each intermediate result is bound once.
WriteIteration(wr, sk, p, written, stage) ==
  CHOOSE it \in
    {WriteIterationCopied(WriteCopy(wr, p, toCopy), sk, Drop(p, toCopy),
                          written + toCopy, stage) :
       toCopy \in {Min(Len(p), wr.frameSize - wr.bufSize)}} : TRUE

\* The copy at the end of an iteration of the loop of Read.
ReadIterationCopy(rd, src, n, out, framed) ==
  CHOOSE it \in
    {[rd |-> [rd EXCEPT !.bufPos = @ + toCopy], src |-> src,
      out |-> out \o SubSeq(rd.buf, rd.bufPos + 1, rd.bufPos + toCopy),
      framed |-> framed, done |-> FALSE, err |-> Nil, panic |-> FALSE] :
       toCopy \in {Min(n - Len(out), rd.bufSize - rd.bufPos)}} : TRUE

\* The iteration from the frame read on: f is what readFrame returned.
ReadIterationFrame(f, n, out) ==
  IF f.panic
  THEN [rd |-> f.rd, src |-> f.src, out |-> out, framed |-> TRUE, done |-> TRUE,
        err |-> Nil, panic |-> TRUE]
  ELSE IF f.err = EOF
  THEN [rd |-> [f.rd EXCEPT !.eof = TRUE], src |-> f.src, out |-> out,
        framed |-> TRUE, done |-> TRUE,
        err |-> IF Len(out) > 0 THEN Nil ELSE EOF, panic |-> FALSE]
  ELSE IF f.err # Nil
  THEN [rd |-> [f.rd EXCEPT !.err = f.err], src |-> f.src, out |-> out,
        framed |-> TRUE, done |-> TRUE,
        err |-> IF Len(out) > 0 THEN Nil ELSE f.err, panic |-> FALSE]
  ELSE ReadIterationCopy(f.rd, f.src, n, out, TRUE)

\* One iteration of the loop of Read, with Len(out) < n: readFrame is
\* called when the buffer is used up.
ReadIteration(rd, src, n, out, stage) ==
  IF rd.bufPos >= rd.bufSize
  THEN CHOOSE it \in {ReadIterationFrame(f, n, out) :
                        f \in {readFrame(rd, src, stage)}} : TRUE
  ELSE ReadIterationCopy(rd, src, n, out, FALSE)

\* The sources: two frames and the marker; a frame and one cut short; a
\* frame, then a frame whose payload announces no byte, and the marker.
LoopStreams ==
  {TwoStream("A"), TwoStream("B"),
   StreamFrame(<<1>>) \o LittleEndian4(1) \o <<0>> \o <<0, 0, 0, 0>>}

\* The call returns n and e.
LoopReturn(l, n, e) ==
  [l EXCEPT !.at = "idle", !.ret = [n |-> n, err |-> e],
            !.total = IF l.op = "Write" THEN @ + n ELSE @]

\* Write(p) or Read(p) is called: n is len(p); a Write gets the next n
\* bytes of the input.
LoopCall(op, n, fault) ==
  /\ loop.at = "idle"
  /\ ~loop.panic
  /\ loop.calls < MaxCalls
  /\ op = "Write" => n <= MaxWriteLen /\ loop.total + n <= MaxTotal /\ fault \in WriteFaults
  /\ op = "Read" => n <= MaxReadLen /\ fault \in ReadFaults
  /\ fault # NoFault => loop.faults < MaxPairFaults
  /\ loop' = [loop EXCEPT
                !.op = op, !.at = "enter",
                !.rest = IF op = "Write" THEN Pattern(loop.total, n) ELSE <<>>,
                !.written = 0, !.n = n, !.out = <<>>, !.k = 1, !.fault = fault,
                !.iters = 0, !.calls = @ + 1,
                !.faults = IF fault = NoFault THEN @ ELSE @ + 1,
                !.was = [wr |-> loop.wr, sk |-> loop.sk, rd |-> loop.rd,
                         src |-> loop.src,
                         p |-> IF op = "Write" THEN Pattern(loop.total, n) ELSE <<>>]]

\* The checks at the top of Write and of Read.
LoopEnter ==
  /\ loop.at = "enter"
  /\ loop' =
       IF loop.op = "Write"
       THEN IF loop.wr.closed THEN LoopReturn(loop, 0, "write to closed Writer")
            ELSE IF loop.wr.err # Nil THEN LoopReturn(loop, 0, loop.wr.err)
            ELSE [loop EXCEPT !.at = "loop"]
       ELSE IF loop.rd.closed THEN LoopReturn(loop, 0, "read from closed Reader")
            ELSE IF loop.rd.err # Nil THEN LoopReturn(loop, 0, loop.rd.err)
            ELSE IF loop.rd.eof THEN LoopReturn(loop, 0, EOF)
            ELSE [loop EXCEPT !.at = "loop"]

\* The loop condition and, when it holds, one iteration.
LoopIterate ==
  /\ loop.at = "loop"
  /\ IF loop.op = "Write"
     THEN IF Len(loop.rest) = 0
          THEN loop' = LoopReturn(loop, loop.written, Nil)
          ELSE \E it \in {WriteIteration(loop.wr, loop.sk, loop.rest, loop.written,
                                         StageAt(loop.fault, loop.k))} :
                 \E l \in {[loop EXCEPT
                              !.wr = it.wr, !.sk = it.sk, !.rest = it.rest,
                              !.written = it.written,
                              !.k = IF it.flushed THEN @ + 1 ELSE @,
                              !.iters = @ + 1, !.panic = it.panic]} :
                   loop' = IF it.done THEN LoopReturn(l, it.written, it.err) ELSE l
     ELSE IF ~(Len(loop.out) < loop.n)
          THEN loop' = LoopReturn(loop, Len(loop.out), Nil)
          ELSE \E it \in {ReadIteration(loop.rd, loop.src, loop.n, loop.out,
                                        StageAt(loop.fault, loop.k))} :
                 \E l \in {[loop EXCEPT
                              !.rd = it.rd, !.src = it.src, !.out = it.out,
                              !.k = IF it.framed THEN @ + 1 ELSE @,
                              !.iters = @ + 1, !.panic = it.panic]} :
                   loop' = IF it.done THEN LoopReturn(l, Len(it.out), it.err) ELSE l

\* Between two calls: Close or Reset of the Writer (on its sink) or of the
\* Reader (on a new source over the same bytes).
LoopOther(op) ==
  /\ loop.at = "idle"
  /\ ~loop.panic
  /\ loop.calls < MaxCalls
  /\ \E l \in {[loop EXCEPT !.op = op, !.calls = @ + 1, !.fault = NoFault]} :
       loop' =
         CASE op = "WriterClose" ->
                LET o == WriterClose(loop.wr, loop.sk, NoFault)
                IN [l EXCEPT !.wr = o.wr, !.sk = o.sk, !.ret = [n |-> 0, err |-> o.err]]
           [] op = "WriterReset" ->
                LET o == WriterReset(loop.wr, loop.sk, loop.wr.w, NoFault)
                IN [l EXCEPT !.wr = o.wr, !.sk = o.sk, !.ret = [n |-> 0, err |-> o.err]]
           [] op = "ReaderClose" ->
                LET o == ReaderClose(loop.rd)
                IN [l EXCEPT !.rd = o.rd, !.ret = [n |-> 0, err |-> o.err]]
           [] op = "ReaderReset" ->
                LET o == ReaderReset(loop.rd, "src")
                IN [l EXCEPT !.rd = o.rd, !.src.pos = 0,
                             !.ret = [n |-> 0, err |-> o.err]]

InitLoop ==
  /\ WriterStart(MinFrameSize)
  /\ ReaderIdle
  /\ CtxIdle
  /\ FnIdle
  /\ TwoIdle
  /\ \E F \in FrameSizes, s \in LoopStreams :
       loop = [NoLoop EXCEPT
                 !.wr = NewWriter("A", <<F>>).wr,
                 !.rd = NewReader("src").rd,
                 !.src.data = s]

LoopRun == (LoopEnter \/ LoopIterate) /\ UNCHANGED <<wvars, rvars, cvars, fn, inst>>

NextLoop ==
  \/ \E n \in 0..MaxWriteLen, fault \in WriteFaults :
       LoopCall("Write", n, fault) /\ UNCHANGED <<wvars, rvars, cvars, fn, inst>>
  \/ \E n \in 0..MaxReadLen, fault \in ReadFaults :
       LoopCall("Read", n, fault) /\ UNCHANGED <<wvars, rvars, cvars, fn, inst>>
  \/ LoopEnter /\ UNCHANGED <<wvars, rvars, cvars, fn, inst>>
  \/ LoopIterate /\ UNCHANGED <<wvars, rvars, cvars, fn, inst>>
  \/ \E op \in {"WriterClose", "WriterReset", "ReaderClose", "ReaderReset"} :
       LoopOther(op) /\ UNCHANGED <<wvars, rvars, cvars, fn, inst>>

SpecLoop == InitLoop /\ [][NextLoop]_vars

\* A call that was made runs on: the sink, the source and the engine return.
FairSpecLoop == SpecLoop /\ WF_vars(LoopRun)

\* ---------------------------------------------------------------- claims
\* The wire format: frames of a non-zero 4-byte little-endian length and that
\* many bytes, then one zero length, then nothing.
RECURSIVE WellFormedStream(_)
WellFormedStream(s) ==
  IF Len(s) < 4 THEN FALSE
  ELSE LET n == Uint32(SubSeq(s, 1, 4))
       IN IF n = 0 THEN Len(s) = 4
          ELSE Len(s) >= 4 + n /\ WellFormedStream(Drop(s, 4 + n))

\* The bytes the bound sink received since the Writer was bound to it.
StreamOfPeriod == Drop(sink[writer.w], period.base)

Marker == <<0, 0, 0, 0>>

\* C2: once a Writer bound to a sink that never failed has been written to
\* and closed with success, the bytes that sink received since the binding
\* are frames with non-zero length headers followed by exactly one zero
\* marker and nothing after it.
C2_StreamWellFormed ==
  (period.closeErr = Nil /\ ~sinkFailed[writer.w]) => WellFormedStream(StreamOfPeriod)

\* a closed stream of at least two payload frames on a sink that never failed
C2_Witness ==
  /\ period.closeErr = Nil
  /\ ~sinkFailed[writer.w]
  /\ Len(StreamOfPeriod) >= 4 + 2 * (4 + 1 + MinFrameSize)
  /\ Len(accepted[writer.w]) % writer.frameSize # 0

\* A step in which Write was called and changed something.
WriteStep == wret'.op = "Write" /\ vars' # vars

\* C6 (as claimed): after a Write has failed, every later Write up to the
\* next successful Reset returns that same error, accepts no byte and leaves
\* the sink alone.
C6_StickyWriteError ==
  [][(period.writeErr # Nil /\ WriteStep) =>
        /\ wret'.err = period.writeErr
        /\ wret'.n = 0
        /\ sink' = sink]_vars

\* C7 (as claimed): a Close of a Writer whose Write has failed, with no Reset
\* in between, returns an error and emits no payload frame.
C7_CloseAfterFailedWrite ==
  [][(period.writeErr # Nil /\ ~writer.closed /\ writer'.closed) =>
        /\ wret'.err # Nil
        /\ sink'[writer.w] \in {sink[writer.w], sink[writer.w] \o Marker}]_vars

\* A step in which Read was called and changed something.
ReadStep == rret'.op = "Read" /\ vars' # vars

\* The Reader was bound to the first byte of what the sink received.
FromStart == phase = "read" /\ source.start = 0

\* C1: a Reader over the whole stream of a closed Writer returns the written
\* bytes in write order, whatever the frame size and the split into Write
\* calls: what it has delivered is a prefix of what was written, and at
\* end-of-stream it is all of it.
C1_RoundTrip ==
  (FromStart /\ source.cut = 0) =>
     /\ IsPrefix(delivered, accepted["A"])
     /\ reader.eof => delivered = accepted["A"]

\* end-of-stream reached over a stream of a full and a partial frame
C1_Witness ==
  /\ FromStart /\ source.cut = 0 /\ ~source.extra
  /\ reader.eof
  /\ Len(delivered) = MaxStream
  /\ writer.frameSize < MaxStream
  /\ delivered[1] # delivered[Len(delivered)]

\* C3 (as claimed): over a stream with its last k > 0 bytes removed the
\* Reader never reaches a clean end-of-stream, and never delivers bytes that
\* are not a prefix of the input.
C3_TruncationDetected ==
  (FromStart /\ source.cut > 0) =>
     /\ ~reader.eof
     /\ IsPrefix(delivered, accepted["A"])

\* C4 (as claimed): a frame read that finds the source at its end reports
\* end-of-stream only when no header byte was left; after 1..3 header bytes,
\* or with the payload short, it reports an error that is not end-of-stream.
C4_ShortReadIsError ==
  (lastFrame.seen /\ ~lastFrame.srcErr) =>
     /\ (lastFrame.hdr = 0 => lastFrame.err = EOF)
     /\ (lastFrame.hdr \in 1..3 => lastFrame.err \notin {Nil, EOF})
     /\ (lastFrame.hdr = 4 /\ lastFrame.got < lastFrame.want =>
           lastFrame.err \notin {Nil, EOF})

ZeroHeaderRead == lastFrame.seen /\ lastFrame.hdr = 4 /\ lastFrame.want = 0

\* C5: after a zero header was read, every Read on the Reader (not closed,
\* not Reset) returns 0 bytes and end-of-stream and does not touch the
\* source, whatever follows the marker there.
C5_StickyEndOfStream ==
  [][(ZeroHeaderRead /\ ~reader.closed /\ ReadStep) =>
        /\ rret'.n = 0 /\ rret'.err = EOF
        /\ source' = source /\ srcCalls' = srcCalls /\ delivered' = delivered]_vars

\* end-of-stream returned with a frame still unread behind the marker
C5_Witness ==
  /\ ZeroHeaderRead /\ ~reader.closed
  /\ rret = [op |-> "Read", n |-> 0, err |-> EOF]
  /\ source.extra /\ source.pos < Len(source.data)
  /\ delivered # <<>>

FrameError == lastFrame.seen /\ lastFrame.err \notin {Nil, EOF}

\* C8: after a frame read failed with an error other than end-of-stream,
\* every Read on the Reader (not closed, not Reset) returns 0 bytes and that
\* error, and calls neither the source nor the engine.
C8_StickyReadError ==
  [][(FrameError /\ ~reader.closed /\ ReadStep) =>
        /\ rret'.n = 0 /\ rret'.err = lastFrame.err
        /\ source' = source /\ srcCalls' = srcCalls /\ engCalls' = engCalls]_vars

\* the latched error returned by a Read after bytes had been delivered
C8_Witness ==
  /\ FrameError /\ ~reader.closed
  /\ rret = [op |-> "Read", n |-> 0, err |-> lastFrame.err]
  /\ delivered # <<>>
  /\ source.pos < Len(source.data)

\* C14 (as claimed): NewWriter with a frame size outside MinFrameSize ..
\* MaxFrameSize returns ErrInvalidParameter and no Writer, with the
\* compressor it created closed; with a size in the range it returns a
\* Writer of that frame size, and with no size a Writer of DefaultFrameSize.
C14_FrameSizeValidated ==
  made.w # Nil =>
    /\ (\E i \in 1..Len(made.opts) : made.opts[i] \notin FrameSizes) =>
          /\ made.err = ErrInvalidParameter
          /\ ~made.ok
          /\ writer = Nil
          /\ made.released = made.acquired
    /\ (made.opts # <<>> /\ \A i \in 1..Len(made.opts) : made.opts[i] \in FrameSizes) =>
          /\ made.ok
          /\ made.released = 0
          /\ writer.frameSize = made.opts[Len(made.opts)]
    /\ made.opts = <<>> =>
          /\ made.ok
          /\ writer.frameSize = DefaultFrameSize

\* C15: a Write on a closed Writer returns an error, accepts no byte, sends
\* nothing to a sink and leaves the Writer as it is; a closed Writer stays
\* closed until a Reset that returns nil.
C15_WriteOnClosedWriter ==
  /\ [][(writer.closed /\ WriteStep) =>
          /\ wret'.err # Nil
          /\ wret'.n = 0
          /\ sink' = sink
          /\ accepted' = accepted
          /\ writer' = writer]_vars
  /\ [][(writer.closed /\ ~writer'.closed) =>
          (wret'.op = "Reset" /\ wret'.err = Nil)]_vars

\* C15 happens: bytes were written, the Writer was closed, and a Write on it
\* was refused.
C15_Witness ==
  /\ writer.closed
  /\ accepted[writer.w] # <<>>
  /\ wret = [op |-> "Write", n |-> 0, err |-> "write to closed Writer"]

\* C16: a Read on a closed Reader returns an error and no byte and leaves
\* the Reader and its source as they are, whatever is buffered or left in
\* the source; a closed Reader stays closed until a Reset that returns nil.
C16_ReadOnClosedReader ==
  /\ [][(reader.closed /\ ReadStep) =>
          /\ rret'.err = "read from closed Reader"
          /\ rret'.n = 0
          /\ delivered' = delivered
          /\ source' = source
          /\ reader' = reader]_vars
  /\ [][(phase = "read" /\ reader.closed /\ ~reader'.closed) =>
          (rret'.op = "Reset" /\ rret'.err = Nil)]_vars

\* C16 happens: the Read was refused with bytes of the current frame
\* buffered and more frames in the source.
C16_Witness ==
  /\ reader.closed
  /\ reader.bufPos < reader.bufSize
  /\ source.pos + 4 < Len(source.data)
  /\ rret = [op |-> "Read", n |-> 0, err |-> "read from closed Reader"]

\* The frame of the bytes b: the length of the compressed bytes in 4 bytes,
\* then the compressed bytes; nothing for no bytes.
FrameOf(b) ==
  IF b = <<>> THEN <<>> ELSE LittleEndian4(Len(ZL_compress(b))) \o ZL_compress(b)

Pending == SubSeq(writer.buf, 1, writer.bufSize)

\* The Writer is Open: not closed and without a sticky error.
WriterOpen == ~writer.closed /\ writer.err = Nil

\* C17: the Close of an Open Writer sends the frame of the buffered bytes, if
\* there are any, then the marker, and nothing else: what the sink has
\* received when Close returns is a part of that, from its start, and all of
\* it when Close returns nil; the compressor is released when Close returns,
\* and no other sink receives a byte.
C17_CloseOrder ==
  [][(WriterOpen /\ writer'.closed) =>
       /\ IsPrefix(sink[writer.w], sink'[writer.w])
       /\ IsPrefix(sink'[writer.w], sink[writer.w] \o FrameOf(Pending) \o Marker)
       /\ wret'.err = Nil => sink'[writer.w] = sink[writer.w] \o FrameOf(Pending) \o Marker
       /\ writer.compressor = "ctx"
       /\ crashed' \/ writer'.compressor = Nil
       /\ \A x \in SinkIds \ {writer.w} : sink'[x] = sink[x]]_vars

\* C17 happens: an Open Writer holding buffered bytes was closed and the sink
\* ends with their frame and the marker.
C17_Witness ==
  /\ writer.closed
  /\ wret = [op |-> "Close", n |-> 0, err |-> Nil]
  /\ writer.err = Nil
  /\ accepted[writer.w] # <<>>
  /\ Len(accepted[writer.w]) < writer.frameSize
  /\ sink[writer.w] = FrameOf(accepted[writer.w]) \o Marker

\* A step in which Reset was called with a sink.
ResetStep == wret'.op = "Reset" /\ wresets' = wresets + 1

\* C18: a Reset of an Open Writer that holds buffered bytes and returns nil
\* has sent the frame of those bytes, and nothing else, to the sink bound
\* before the call, and no byte to any other sink; every Reset that returns
\* nil leaves the Writer bound to the new sink, not closed, with an empty
\* buffer, no sticky error and a compressor; a Reset that returns an error
\* leaves the Writer, its buffered bytes included, as it was.
C18_ResetFlushesToOldSink ==
  /\ [][(WriterOpen /\ Pending # <<>> /\ ResetStep /\ wret'.err = Nil /\ ~crashed') =>
          /\ sink'[writer.w] = sink[writer.w] \o FrameOf(Pending)
          /\ \A x \in SinkIds \ {writer.w} : sink'[x] = sink[x]]_vars
  /\ [][(ResetStep /\ wret'.err = Nil /\ ~crashed') =>
          /\ ~writer'.closed
          /\ writer'.bufSize = 0
          /\ writer'.err = Nil
          /\ writer'.compressor = "ctx"
          /\ writer'.frameSize = writer.frameSize]_vars
  /\ [][(ResetStep /\ wret'.err # Nil) => writer' = writer]_vars

\* C18 happens: bytes were buffered, the Writer was reset to the other sink,
\* and the first sink holds their frame while the other holds nothing.
C18_Witness ==
  /\ wret = [op |-> "Reset", n |-> 0, err |-> Nil]
  /\ writer.w = "B"
  /\ accepted["A"] # <<>>
  /\ sink["A"] = FrameOf(accepted["A"])
  /\ sink["B"] = <<>>
  /\ ~writer.closed /\ writer.bufSize = 0

\* C19 (as claimed): a Reset with a sink on a Writer whose Write has failed
\* and that was not closed returns nil and leaves the Writer Open and bound
\* to the new sink, whether or not the old sink still fails.
C19_ResetClearsFailed ==
  [][(~writer.closed /\ writer.err # Nil /\ ResetStep) =>
       /\ wret'.err = Nil
       /\ writer'.err = Nil
       /\ ~writer'.closed]_vars

\* The bytes of the frames at the start of s, up to the marker, the end of
\* s or the first frame that is cut short or that the engine refuses.
RECURSIVE DecodeStream(_)
DecodeStream(s) ==
  IF Len(s) < 4 THEN <<>>
  ELSE LET n == Uint32(SubSeq(s, 1, 4))
       IN IF n = 0 \/ Len(s) < 4 + n THEN <<>>
          ELSE LET payload == SubSeq(s, 5, 4 + n)
                   d == ZL_decompress(payload[1], payload)
               IN IF d.ok THEN d.out \o DecodeStream(Drop(s, 4 + n)) ELSE <<>>

\* A step in which Reader.Reset was called with a source.
ReaderResetStep == rret'.op = "Reset" /\ rresets' = rresets + 1

C21_BytesRoundTrip ==
  /\ (fn.op \in ByteCompressOps /\ fn.arg # <<>> /\ ~fn.fault) =>
        (fn.err = Nil /\ ~fn.panic /\ fn.out # <<>>)
  /\ (fn.op \in ByteDecompressOps /\ fn.rt /\ ~fn.fault) =>
        (fn.err = Nil /\ ~fn.panic /\ fn.out = fn.orig)

\* C21 happens: bytes of the greatest length came back from the one-shot
\* Decompress.
C21_Witness ==
  /\ fn.op = "Decompress"
  /\ fn.rt
  /\ Len(fn.orig) = MaxFnLen
  /\ fn.out = fn.orig

EntryPoints ==
  ByteCompressOps \cup ByteDecompressOps \cup NumCompressOps \cup NumDecompressOps

C23_NumericRoundTrip ==
  /\ (fn.op \in NumCompressOps /\ Len(fn.arg) # 0 /\ ~fn.fault) =>
        (fn.err = Nil /\ ~fn.panic /\ Len(fn.out) # 0)
  /\ (fn.op \in NumDecompressOps /\ fn.rt /\ fn.w = fn.origw /\ ~fn.fault) =>
        /\ fn.err = Nil
        /\ ~fn.panic
        /\ Len(fn.out) = Len(fn.orig)
        /\ \A i \in 1..Len(fn.orig) : fn.out[i] = fn.orig[i]

\* C23 happens: a slice of elements of 8 bytes, two different ones, came
\* back from the one-shot DecompressNumeric.
C23_Witness ==
  /\ fn.op = "DecompressNumeric"
  /\ fn.rt
  /\ fn.w = 8 /\ fn.origw = 8
  /\ Len(fn.orig) = MaxElems
  /\ fn.orig[1] # fn.orig[2]
  /\ fn.out = fn.orig

\* A numeric decompression, declared with elements of 4 bytes, of what the
\* numeric compression of a slice of elements of 8 bytes returned.
Int64AsInt32 ==
  /\ fn.op \in NumDecompressOps
  /\ fn.rt
  /\ fn.origw = 8
  /\ fn.w = 4
  /\ ~fn.fault

CloseStep == wret'.op = "Close" /\ vars' # vars /\ ~crashed'

\* The Close of this step returned the error of its final flush.
FlushFailed == wret'.err # Nil /\ wret'.err # "write end marker: sink"

\* C25: when a Close returns, with nil, with the error of the final flush or
\* with the error of the marker, the Writer is closed and its compressor is
\* released; when the final flush failed, the sink has received at most the
\* header of the frame of the pending bytes, and no marker.
C25_CloseAlwaysReleases ==
  [][CloseStep =>
       /\ writer'.closed
       /\ writer'.compressor = Nil
       /\ FlushFailed =>
            /\ Pending # <<>>
            /\ sink'[writer.w] \in
                 {sink[writer.w],
                  sink[writer.w] \o LittleEndian4(Len(ZL_compress(Pending)))}
            /\ LittleEndian4(Len(ZL_compress(Pending))) # Marker
       /\ wret'.err = "write end marker: sink" =>
            sink'[writer.w] = sink[writer.w] \o FrameOf(Pending)]_vars

\* C25 happens: a Close whose final flush failed at the payload has returned.
C25_Witness ==
  /\ wret.op = "Close"
  /\ wret.err = "write compressed: sink"
  /\ writer.closed
  /\ writer.compressor = Nil
  /\ ~crashed

\* The frames of the first k groups of F bytes of b, one after the other.
RECURSIVE FramesOf(_, _, _)
FramesOf(b, F, k) ==
  IF k = 0 THEN <<>>
  ELSE FramesOf(b, F, k - 1) \o FrameOf(SubSeq(b, (k - 1) * F + 1, k * F))

\* The Write of this step, called with the next n bytes, returned nil.
WriteReturnsNil(n) ==
  /\ \E fault \in WriteFaults : Write(Pattern(TotalAccepted, n), fault)
  /\ wret'.err = Nil
  /\ ~crashed'

\* C26: an Open Writer holds fewer bytes than its frame size F; a Write of n
\* bytes on it that returns nil returns n, appends to the bound sink the
\* frames of the first floor((b + n) / F) groups of F bytes of the buffered
\* bytes followed by the written ones, and nothing else, keeps the remaining
\* (b + n) mod F bytes in the buffer and leaves the other sinks alone; with
\* b + n < F the sink receives nothing.
C26_FramesPerWrite ==
  [][\A n \in 0..MaxWriteLen :
       (WriterOpen /\ WriteReturnsNil(n)) =>
          /\ writer.bufSize < writer.frameSize
          /\ wret'.n = n
          /\ sink'[writer.w] =
               sink[writer.w] \o
                 FramesOf(Pending \o Pattern(TotalAccepted, n), writer.frameSize,
                          (writer.bufSize + n) \div writer.frameSize)
          /\ writer'.bufSize = (writer.bufSize + n) % writer.frameSize
          /\ SubSeq(writer'.buf, 1, writer'.bufSize) =
               Drop(Pending \o Pattern(TotalAccepted, n),
                    ((writer.bufSize + n) \div writer.frameSize) * writer.frameSize)
          /\ writer.bufSize + n < writer.frameSize => sink' = sink
          /\ \A x \in SinkIds \ {writer.w} : sink'[x] = sink[x]
          /\ WriterOpen']_vars

\* C26 happens: a Write of 3 bytes on a Writer of frame size 3 that held one
\* byte returned 3; the sink holds one frame and one byte is buffered.
C26_Witness ==
  /\ wret = [op |-> "Write", n |-> MaxFrameSize, err |-> Nil]
  /\ writer.frameSize = MaxFrameSize
  /\ writer.bufSize = 1
  /\ Len(accepted[writer.w]) = MaxFrameSize + 1
  /\ sink[writer.w] = FrameOf(Take(accepted[writer.w], MaxFrameSize))
  /\ WriterOpen

\* The number of frames at the start of s that are there with their whole
\* payload, up to the marker.
RECURSIVE FramesRead(_)
FramesRead(s) ==
  IF Len(s) < 4 THEN 0
  ELSE LET n == Uint32(SubSeq(s, 1, 4))
       IN IF n = 0 \/ Len(s) < 4 + n THEN 0
          ELSE 1 + FramesRead(Drop(s, 4 + n))

\* The bytes of the source from where the Reader was bound to it.
BoundStream == Drop(source.data, source.start)

\* C27: whatever the lengths of the buffers of the Read calls, the bytes
\* delivered so far are the start of what the frames of the stream hold, and
\* all of it once the Reader has met the end of the stream (the marker, or
\* the end of the source in a header or in a payload); a Read of n bytes
\* returns n bytes unless it leaves the Reader at end-of-stream or with an
\* error; the bytes a Read returns follow those returned before; and the
\* engine has been called once for each frame whose payload was read.
C27_BufferSizeIndependent ==
  /\ [](phase = "read" =>
          /\ IsPrefix(delivered, DecodeStream(BoundStream))
          /\ (reader.eof \/ reader.err = ErrUnexpectedEOF) =>
                delivered = DecodeStream(BoundStream)
          /\ engCalls = FramesRead(SubSeq(source.data, source.start + 1, source.pos)))
  /\ [][\A n \in 0..MaxReadLen :
          (ReadStep /\ ~reader.closed /\ ~crashed' /\ \E fault \in ReadFaults : Read(n, fault)) =>
             /\ rret'.n <= n
             /\ Len(delivered') = Len(delivered) + rret'.n
             /\ IsPrefix(delivered, delivered')
             /\ rret'.n < n => reader'.eof \/ reader'.err # Nil
             /\ rret'.n = n /\ n > 0 => rret'.err = Nil]_vars

\* C27 happens: over a stream of a frame of two bytes and a frame of one, a
\* Read of one byte and then a Read of two, which took its bytes from both
\* frames, have returned the three bytes with two engine calls.
C27_Witness ==
  /\ FromStart /\ source.cut = 0
  /\ writer.frameSize = MinFrameSize
  /\ rret = [op |-> "Read", n |-> MaxReadLen, err |-> Nil]
  /\ Len(delivered) = MaxStream
  /\ delivered = accepted["A"]
  /\ engCalls = 2
  /\ rresets = 0

LengthError == "byte slice length is not a multiple of element size"

\* What decoding n bytes as elements of w bytes has to return: e is the
\* length error as the caller sees it.
DecodedAs(n, w, e) ==
  IF n = 0 THEN fn.err = Nil /\ Len(fn.out) = 0
  ELSE IF n % w # 0 THEN fn.err = e /\ Len(fn.out) = 0
  ELSE /\ fn.err = Nil
       /\ Len(fn.out) = n \div w
       /\ \A i \in 1..Len(fn.out) : Len(fn.out[i]) = w

\* C28: BytesToTypedSlice on n bytes with elements of w bytes (1, 2, 4 or 8)
\* returns the length error and no slice when n is not a multiple of w, n / w
\* elements of w bytes when n is a positive multiple of w, and an empty slice
\* and no error when n = 0; a numeric decompression of what a numeric
\* compression returned decodes the bytes of the original slice so, its
\* length error being the wrapped one.
C28_DecodeByWidth ==
  /\ fn.op = "BytesToTypedSlice" =>
       /\ fn.w \in Widths
       /\ ~fn.panic
       /\ DecodedAs(Len(fn.arg), fn.w, LengthError)
       /\ (fn.err = Nil /\ Len(fn.arg) > 0) => TypedToBytes(fn.out) = fn.arg
  /\ (fn.op \in NumDecompressOps /\ fn.rt /\ ~fn.fault) =>
       /\ ~fn.panic
       /\ DecodedAs(Len(fn.orig) * fn.origw, fn.w, "convert to typed slice: " \o LengthError)

\* C28 happens: a buffer of 6 bytes was decoded as elements of 4 bytes and
\* the length error came back.
C28_Witness ==
  /\ fn.op = "BytesToTypedSlice"
  /\ fn.w = 4
  /\ Len(fn.arg) = 6
  /\ fn.err = LengthError
  /\ Len(fn.out) = 0

\* The bytes of the first k frames of s.
RECURSIVE DecodedFrames(_, _)
DecodedFrames(s, k) ==
  IF k = 0 \/ Len(s) < 4 THEN <<>>
  ELSE LET n == Uint32(SubSeq(s, 1, 4))
       IN IF n = 0 \/ Len(s) < 4 + n THEN <<>>
          ELSE ZL_decompress(s[5], SubSeq(s, 5, 4 + n)).out
                 \o DecodedFrames(Drop(s, 4 + n), k - 1)

\* The function or method of the last call was given an input that the
\* engine refuses, or met the engine failing.
EngineFailedFn ==
  /\ fn.op \in EntryPoints
  /\ Len(fn.arg) # 0
  /\ \/ fn.fault
     \/ fn.op \in ByteDecompressOps \cup NumDecompressOps
          /\ ~ZL_decompress(fn.arg[1], fn.arg).ok

\* The Read of this step read the whole payload of a frame and the engine
\* refused it.
DecompressFailedStep ==
  /\ ReadStep
  /\ reader.err = Nil
  /\ reader'.err # Nil
  /\ lastFrame'.want > 0
  /\ lastFrame'.got = lastFrame'.want
  /\ ~crashed'

\* What holds of the functions, the context methods and the Writer when the
\* engine fails: the call returns an error and no output; a Write or a Close
\* whose k-th frame the engine fails to compress returns the error after the
\* sink has received the frames before that one and nothing of it.
EngineFailureNoData ==
  /\ [](EngineFailedFn => fn.err # Nil /\ Len(fn.out) = 0 /\ ~fn.panic)
  /\ [](fn.err # Nil => Len(fn.out) = 0)
  /\ [][\A p \in Inputs, fault \in CompressFaults :
          (wret'.op = "Write" /\ wfaults' # wfaults /\ WriterOpen /\ Write(p, fault)) =>
             /\ wret'.err # Nil
             /\ writer'.err = wret'.err
             /\ sink'[writer.w] =
                  sink[writer.w] \o FramesOf(Pending \o p, writer.frameSize, fault.at - 1)]_vars
  /\ [][(wret'.op = "Close" /\ wfaults' # wfaults /\ ~crashed'
            /\ Close([at |-> 1, stage |-> "compress"])) =>
          /\ wret'.err # Nil
          /\ sink' = sink]_vars

\* C29 (as claimed): when the engine fails, the function, the context method
\* or the Write returns an error and no output, the sink receiving nothing of
\* the frame; and the Read in which a frame's decompression fails returns an
\* error and no byte.
C29_ErrorAndNoData ==
  /\ EngineFailureNoData
  /\ [][DecompressFailedStep => rret'.err # Nil /\ rret'.n = 0]_vars

\* C29 (amended): the same of the functions, the context methods and the
\* Writer; the Read in which a frame's decompression fails delivers the bytes
\* of the frames before that one and none of it, returns the error when it
\* delivers nothing and nil when it delivers bytes, and leaves the Reader
\* with the error, which the next Read returns with no byte.
C29_NoByteOfFailedFrame ==
  /\ EngineFailureNoData
  /\ [][DecompressFailedStep =>
          /\ engCalls' > 0
          /\ delivered' = DecodedFrames(BoundStream, engCalls' - 1)
          /\ rret'.n = Len(delivered') - Len(delivered)
          /\ rret'.err = IF rret'.n = 0 THEN reader'.err ELSE Nil]_vars
  /\ [][(ReadStep /\ reader.err # Nil /\ ~reader.closed) =>
          /\ rret' = [op |-> "Read", n |-> 0, err |-> reader.err]
          /\ delivered' = delivered]_vars

\* C29 happens: a Read that took the last byte of the first frame met the
\* engine failing on the second one; it returned that byte with nil and left
\* the Reader with the error.
C29_Witness ==
  /\ FromStart /\ source.cut = 0 /\ rresets = 0
  /\ reader.err # Nil
  /\ rret = [op |-> "Read", n |-> 1, err |-> Nil]
  /\ lastFrame.want > 0 /\ lastFrame.got = lastFrame.want
  /\ engCalls = 2
  /\ Len(delivered) = MinFrameSize
  /\ delivered = Take(accepted["A"], MinFrameSize)

\* The instance holds a context: its context field is not nil.
HoldsContext(i) == inst.made[i] /\ CtxField(inst.kind, inst.run[i].obj) # Nil

C32_NilArguments ==
  /\ [][\A opts \in WriterOpts :
          NilNewWriter(opts) =>
             /\ ~NewWriter(Nil, opts).ok
             /\ NewWriter(Nil, opts).wr = Nil
             /\ NewWriter(Nil, opts).acquired = NewWriter(Nil, opts).released
             /\ wret'.err # Nil
             /\ writer' = writer]_vars
  /\ [][NilNewReader =>
          /\ ~NewReader(Nil).ok
          /\ NewReader(Nil).rd = Nil
          /\ rret'.err # Nil
          /\ reader' = reader]_vars
  /\ [][Reset(Nil, NoFault) =>
          /\ wret' = [op |-> "Reset", n |-> 0, err |-> "nil writer"]
          /\ writer' = writer
          /\ sink' = sink
          /\ accepted' = accepted
          /\ crashed' = crashed]_vars
  /\ [][RReset(Nil) =>
          /\ rret' = [op |-> "Reset", n |-> 0, err |-> "nil reader"]
          /\ reader' = reader
          /\ source' = source
          /\ delivered' = delivered]_vars

\* C32 happens: Reset(nil) has returned its error on a Writer that holds
\* pending bytes, and the sink has received nothing.
C32_Witness ==
  /\ wret = [op |-> "Reset", n |-> 0, err |-> "nil writer"]
  /\ ~writer.closed
  /\ writer.bufSize > 0
  /\ writer.bufSize = Len(accepted[writer.w])
  /\ sink[writer.w] = <<>>

\* The Read of this step met the end of the stream or a failing frame read.
LatchingStep ==
  /\ ReadStep
  /\ ~reader.closed /\ reader.err = Nil /\ ~reader.eof
  /\ reader'.err # Nil \/ reader'.eof
  /\ ~crashed'

\* The frames read whole and decompressed when the Read of this step
\* returns: those whose payload was read, less the one the engine refused.
GoodFrames ==
  engCalls' - (IF reader'.err # Nil /\ lastFrame'.want > 0
                    /\ lastFrame'.got = lastFrame'.want THEN 1 ELSE 0)

\* C33: the Read that meets the end of the stream or a failing frame read
\* returns the bytes it has copied with nil when there are any, and the
\* outcome with 0 bytes when there are none; at its return every byte of the
\* frames before that point has been delivered, once and in order; every
\* Read after it returns 0 bytes and the latched outcome, and delivers
\* nothing.
C33_DeferredOutcome ==
  /\ [][LatchingStep =>
          /\ rret'.n = Len(delivered') - Len(delivered)
          /\ rret'.n > 0 => rret'.err = Nil
          /\ rret'.n = 0 => rret'.err = (IF reader'.eof THEN EOF ELSE reader'.err)
          /\ ~(reader'.eof /\ reader'.err # Nil)
          /\ delivered' = DecodedFrames(BoundStream, GoodFrames)]_vars
  /\ [][(ReadStep /\ ~reader.closed /\ (reader.err # Nil \/ reader.eof)) =>
          /\ rret'.n = 0
          /\ rret'.err = (IF reader.err # Nil THEN reader.err ELSE EOF)
          /\ delivered' = delivered
          /\ reader' = reader]_vars

\* C33 happens: a Read that copied the last byte of the stream and then met
\* the marker returned that byte with nil; the Reader is at end-of-stream.
C33_Witness ==
  /\ FromStart /\ source.cut = 0 /\ ~source.extra
  /\ reader.eof
  /\ rret = [op |-> "Read", n |-> 1, err |-> Nil]
  /\ Len(delivered) = MaxStream
  /\ delivered = accepted["A"]

\* C34: the buffered byte count of a Writer is within 0 .. frameSize and its
\* buffer has frameSize bytes; between two operations an Open Writer holds
\* fewer than frameSize bytes, so that a Writer with a full buffer has a
\* sticky error or is closed.
C34_BufferWithinFrame ==
  made.ok =>
     /\ writer.bufSize \in 0..writer.frameSize
     /\ Len(writer.buf) = writer.frameSize
     /\ WriterOpen => writer.bufSize < writer.frameSize
     /\ writer.bufSize = writer.frameSize => writer.err # Nil \/ writer.closed

\* C34 happens: a Writer whose flush failed in a Write holds a full buffer and
\* its sticky error, and is not closed.
C34_Witness ==
  /\ made.ok
  /\ writer.bufSize = writer.frameSize
  /\ writer.frameSize = MaxFrameSize
  /\ writer.err # Nil
  /\ ~writer.closed
  /\ wret.op = "Reset" /\ wret.err # Nil

\* C35: an instance that is not closed holds a context and its handle is
\* live, a closed one holds none; no operation brings the process down (a
\* call into the engine without a live context does); and on a closed
\* instance a Write, a Read or a Close returns with nothing changed but the
\* recorded return, no byte moved and no context created or released, while
\* a Reset writes nothing to the sink and leaves the instance open with a
\* context created for it.
C35_NoUseAfterRelease ==
  /\ [](\A i \in SinkIds :
          inst.made[i] =>
             IF inst.run[i].obj.closed
             THEN ~HoldsContext(i) /\ inst.handle[i] \notin inst.live
             ELSE HoldsContext(i) /\ inst.handle[i] \in inst.live)
  /\ [](~inst.crashed)
  /\ [][\A i \in SinkIds :
          (inst.made[i] /\ inst.run[i].obj.closed /\ inst'.run[i] # inst.run[i]) =>
             /\ inst'.run[i].io = inst.run[i].io
             /\ inst'.run[i].pos = inst.run[i].pos
             /\ inst'.run[i].out = inst.run[i].out
             /\ IF inst'.run[i].ret.op = "Reset"
                THEN /\ ~inst'.run[i].obj.closed
                     /\ inst'.run[i].ret.err = Nil
                     /\ inst'.handle[i] \notin inst.live
                     /\ inst'.live = inst.live \cup {inst'.handle[i]}
                ELSE /\ inst'.run[i].obj = inst.run[i].obj
                     /\ inst'.run[i].ret.n = 0
                     /\ inst'.run[i].ret.op \in {"Write", "Read"} => inst'.run[i].ret.err # Nil
                     /\ inst'.run[i].ret.op = "Close" => inst'.run[i].ret.err = Nil
                     /\ inst'.live = inst.live
                     /\ inst'.handle = inst.handle]_vars

\* C35 happens: a Writer whose Close failed in its flush, so that it is
\* closed with bytes pending, was Reset and is open with a live context and
\* an empty buffer, the sink as the failed Close left it.
C35_Witness ==
  /\ inst.kind = "writers"
  /\ inst.made["A"]
  /\ inst.faults = 1
  /\ inst.resets = 1
  /\ inst.run["A"].ret = [op |-> "Reset", n |-> 0, err |-> Nil]
  /\ ~inst.run["A"].obj.closed
  /\ inst.run["A"].obj.bufSize = 0
  /\ Len(inst.run["A"].out) = 1
  /\ inst.run["A"].io = <<>>
  /\ HoldsContext("A")
  /\ inst.handle["A"] \in inst.live

\* The bytes the first k frames of s take, header and payload.
RECURSIVE BytesOfFrames(_, _)
BytesOfFrames(s, k) ==
  IF k = 0 \/ Len(s) < 4 THEN 0
  ELSE 4 + Uint32(SubSeq(s, 1, 4))
         + BytesOfFrames(Drop(s, 4 + Uint32(SubSeq(s, 1, 4))), k - 1)

\* The Reader is at end-of-stream after it read a zero header.
MarkerSeen == reader.eof /\ ZeroHeaderRead

\* The bytes the Reader took from the source since it was bound to it.
Consumed == source.pos - source.start

\* C36: as long as no read from the source failed or came short in a
\* payload, the Reader has taken from its source the 4 + length bytes of each
\* frame it handed to the engine and, at end-of-stream, the header bytes it
\* got last (4 for the marker): after the marker the next unread byte of
\* the source is the first byte behind the marker.  A Reset on the same
\* source at that point binds the Reader to what is behind the marker, and
\* a frame concatenated there is delivered whole.
C36_ExactConsumption ==
  /\ [](phase = "read" /\ (reader.err = Nil \/ lastFrame.got = lastFrame.want) =>
          /\ Consumed = BytesOfFrames(BoundStream, engCalls)
                          + (IF reader.eof THEN lastFrame.hdr ELSE 0)
          /\ MarkerSeen =>
                /\ Consumed >= 4
                /\ SubSeq(source.data, source.pos - 3, source.pos) = <<0, 0, 0, 0>>
                /\ engCalls = FramesRead(BoundStream)
                /\ delivered = DecodeStream(BoundStream))
  /\ [][(ReaderResetStep /\ MarkerSeen /\ source'.start = source.pos) =>
          /\ source'.pos = source.pos
          /\ Drop(source'.data, source'.start)
               = Drop(BoundStream, BytesOfFrames(BoundStream, engCalls) + 4)
          /\ (source.start = 0 /\ source.extra) =>
                Drop(source'.data, source'.start) = Trailer]_vars
  /\ [](phase = "read" /\ source.start > 0 /\ BoundStream = Trailer /\ reader.eof =>
          delivered = DecodeStream(Trailer))

\* C36 happens: a stream of two frames and the marker was read to its end,
\* the Reader was Reset on the same source, and the frame concatenated
\* behind the marker has been delivered with the source used up.
C36_Witness ==
  /\ phase = "read"
  /\ source.extra
  /\ rresets = 1
  /\ source.start = Len(sink["A"])
  /\ Len(accepted["A"]) = MaxStream
  /\ writer.frameSize = MinFrameSize
  /\ reader.eof
  /\ delivered = <<1>>
  /\ source.pos = Len(source.data)
  /\ engCalls = 1

\* The bytes s of a sink are whole frames and markers, with at most one
\* header without its payload, and that one at the very end.
RECURSIVE EmittedOnce(_)
EmittedOnce(s) ==
  IF Len(s) = 0 THEN TRUE
  ELSE IF Len(s) < 4 THEN FALSE
  ELSE LET n == Uint32(SubSeq(s, 1, 4))
       IN IF n = 0 THEN EmittedOnce(Drop(s, 4))
          ELSE IF Len(s) = 4 THEN TRUE
          ELSE /\ Len(s) >= 4 + n
               /\ ZL_decompress(s[5], SubSeq(s, 5, 4 + n)).ok
               /\ EmittedOnce(Drop(s, 4 + n))

\* C37 (as claimed): whatever the sink does, a header on a sink is followed
\* by its whole payload or by nothing: no buffer's header is written a second
\* time, and no header comes behind a header that waits for its payload.
C37_HeaderOncePerBuffer ==
  \A i \in SinkIds : EmittedOnce(sink[i])

\* An iteration of the loop of Write (Read) was run.
WriteIterated == loop.at = "loop" /\ loop.op = "Write" /\ loop'.iters = loop.iters + 1
ReadIterated == loop.at = "loop" /\ loop.op = "Read" /\ loop'.iters = loop.iters + 1

\* C38: every Write call and every Read call that was made returns; an
\* iteration of the loop of Write takes at least one byte of the input into
\* the buffer, so that a Write of n bytes runs at most n iterations; an
\* iteration of the loop of Read copies at least one byte or ends the call
\* with the Reader at end-of-stream or in its error state, a frame read
\* without error leaving a buffer that is not empty, so that a Read into n
\* bytes runs at most n iterations and one frame read more; and what the
\* call returns and leaves, taken iteration by iteration, is what the whole
\* method returns and leaves.
C38_CallsTerminate ==
  /\ (loop.at # "idle") ~> (loop.at = "idle")
  /\ [][WriteIterated =>
          /\ Len(loop'.rest) < Len(loop.rest)
          /\ loop'.written = loop.written + (Len(loop.rest) - Len(loop'.rest))
          /\ loop.wr.bufSize < loop.wr.frameSize
          /\ \/ loop'.wr.bufSize > loop.wr.bufSize
             \/ loop'.sk # loop.sk
             \/ loop'.at = "idle" /\ loop'.ret.err # Nil]_vars
  /\ [][ReadIterated =>
          /\ \/ Len(loop'.out) > Len(loop.out)
             \/ /\ loop'.at = "idle"
                /\ loop'.rd.eof \/ loop'.rd.err # Nil
                /\ loop'.rd.eof => loop'.src.pos > loop.src.pos \/ loop.src.pos = Len(loop.src.data)
          /\ (loop'.src.pos > loop.src.pos /\ loop'.rd.err = Nil /\ ~loop'.rd.eof) =>
                /\ loop'.src.pos >= loop.src.pos + 5
                /\ loop'.rd.bufSize > 0
                /\ Len(loop'.out) > Len(loop.out)]_vars
  /\ [](/\ ~loop.panic
        /\ loop.op = "Write" => loop.iters <= Len(loop.was.p)
        /\ loop.op = "Read" => loop.iters <= loop.n + 1)
  /\ [](loop.at = "idle" /\ loop.op = "Write" =>
          \E o \in {WriterWrite(loop.was.wr, loop.was.sk, loop.was.p, loop.fault)} :
            /\ o.wr = loop.wr /\ o.sk = loop.sk
            /\ o.n = loop.ret.n /\ o.err = loop.ret.err)
  /\ [](loop.at = "idle" /\ loop.op = "Read" =>
          \E o \in {ReaderRead(loop.was.rd, loop.was.src, loop.n, loop.fault, NoFrame)} :
            /\ o.rd = loop.rd /\ o.src = loop.src /\ o.out = loop.out
            /\ o.n = loop.ret.n /\ o.err = loop.ret.err)

\* C38 happens: a Write of MaxWriteLen bytes on a Writer with frames of
\* MinFrameSize bytes has run its iterations, flushed twice and returned,
\* and after it a Read of MaxReadLen bytes that took its bytes from two
\* frames has returned them.
C38_Witness ==
  /\ loop.at = "idle"
  /\ loop.op = "Read"
  /\ loop.ret = [n |-> MaxReadLen, err |-> Nil]
  /\ loop.iters = 2
  /\ loop.k = 2
  /\ loop.src.data = TwoStream("A")
  /\ loop.src.pos = Len(TwoStream("A")) - 4
  /\ loop.total = MaxWriteLen
  /\ loop.wr.frameSize = MinFrameSize
  /\ Len(loop.sk) = 2 * (4 + MinFrameSize + 1)

\* C12: a Close on a Writer or on a Reader that is closed already returns
\* nil, also after a first Close that returned an error, sends nothing to
\* the sink, reads nothing from the source and leaves the Writer and the
\* Reader, the released context included, as they are.
C12_SecondCloseNoOp ==
  /\ [][(writer.closed /\ wret'.op = "Close"
           /\ <<writer, sink, wret>>' # <<writer, sink, wret>>)
          => (wret'.err = Nil /\ wret'.n = 0 /\ sink' = sink /\ writer' = writer
                /\ writer.compressor = Nil)]_vars
  /\ [][(reader.closed /\ rret'.op = "Close" /\ <<reader, source, rret>>' # <<reader, source, rret>>)
          => (rret'.err = Nil /\ reader' = reader /\ source' = source
                /\ delivered' = delivered /\ reader.decompressor = Nil)]_vars

\* C12 happens: the first Close failed on the sink and the second returned nil.
C12_Witness ==
  /\ writer.closed
  /\ period.closeErr \notin {Nil, "open"}
  /\ sinkFailed[writer.w]
  /\ wret = [op |-> "Close", n |-> 0, err |-> Nil]

InEngine(c) == {p \in Callers : pc[p] = "engine" /\ call[p].c = c}

\* C9 (as claimed): a call with non-empty input made on a context after its
\* Close returns ErrContextClosed, no call is in the engine with a released
\* handle, and no call panics.
C9_ClosedContextReported ==
  /\ \A p \in Callers :
       (res[p].late /\ res[p].op \notin {"none", "Close"} /\ res[p].err # ErrEmptyInput)
          => res[p].op # "panic" /\ res[p].err = ErrContextClosed
  /\ \A c \in Contexts : InEngine(c) # {} => ctx[c] # Nil

\* C10: at most one engine call is in flight on a context's handle, and a
\* caller held at the lock of a context is held by a caller working on that
\* same context.
C10_OneEngineCallPerContext ==
  /\ \A c \in Contexts : Cardinality(InEngine(c)) <= 1
  /\ \A p \in Callers :
       (pc[p] = "lock" /\ mu[call[p].c] # Unlocked)
          => /\ call[mu[call[p].c]].c = call[p].c
             /\ pc[mu[call[p].c]] = "engine"

\* one engine call in flight on a context while a second caller waits at
\* the lock of that context
C10_Witness ==
  \E p, q \in Callers :
    /\ p # q
    /\ pc[p] = "engine" /\ pc[q] = "lock"
    /\ call[p].c = call[q].c
    /\ call[q].op # "Close"
    /\ mu[call[p].c] = p

\* Each result of a decompression of the caller's own compressed bytes, on
\* an open context and a sound engine, is the input of that compression.
RoundTripOwn ==
  \A p \in Callers :
    (res[p].orig # <<>> /\ ~res[p].late /\ ~res[p].fault)
       => res[p].err = Nil /\ res[p].out = res[p].orig

\* C11: callers running compress-then-decompress round trips through one
\* Compressor and one Decompressor each get their own input back, under
\* every interleaving, and every call made returns (unless a call on a
\* closed context has brought the process down).
C11_ConcurrentRoundTrips ==
  /\ []RoundTripOwn
  /\ \A p \in Callers : (pc[p] # "idle") ~> (pc[p] = "idle" \/ crashed)

\* two callers hold the results of round trips of different inputs
C11_Witness ==
  \E p, q \in Callers :
    /\ res[p].orig # <<>> /\ res[q].orig # <<>>
    /\ res[p].orig # res[q].orig
    /\ res[p].out = res[p].orig /\ res[q].out = res[q].orig
    /\ ~crashed

\* C30: while an engine call is in flight on the handle of a context, the
\* handle is live; the step that releases the handle of a context is taken
\* with its mutex free and no engine call on it in flight, before and after
\* the step, and no engine call on it starts afterwards.
C30_NoReleaseDuringEngineCall ==
  /\ [](\A c \in Contexts : InEngine(c) # {} => ctx[c] = "ctx" /\ freed[c] = 0)
  /\ [][\A c \in Contexts :
          (freed'[c] # freed[c] \/ ctx'[c] # ctx[c]) =>
             /\ mu[c] = Unlocked /\ mu'[c] = Unlocked
             /\ InEngine(c) = {}
             /\ InEngine(c)' = {}
             /\ ctx[c] = "ctx" /\ ctx'[c] = Nil
             /\ freed'[c] = freed[c] + 1]_vars

\* C30 happens: a Close waits at the lock of a context while the engine call
\* of another caller is in flight on its handle, which is live.
C30_Witness ==
  \E p, q \in Callers :
    /\ p # q
    /\ pc[p] = "engine" /\ pc[q] = "lock"
    /\ call[p].c = call[q].c
    /\ call[q].op = "Close"
    /\ call[p].op \in {"CompressNumeric", "DecompressNumeric"}
    /\ ctx[call[p].c] = "ctx" /\ freed[call[p].c] = 0

\* C13: however Close calls on a context interleave, its native handle is
\* released once, never twice, and every Close returns success.
C13_ReleasedOnce ==
  /\ \A c \in Contexts : freed[c] = IF ctx[c] = Nil THEN 1 ELSE 0
  /\ \A p \in Callers : res[p].op = "Close" => res[p].err = Nil

\* two Close calls on one context, neither made after the other had
\* returned, have both returned
C13_Witness ==
  \E p, q \in Callers, c \in Contexts :
    /\ p # q
    /\ res[p].op = "Close" /\ res[q].op = "Close"
    /\ ~res[p].late /\ ~res[q].late
    /\ ctx[c] = "ctx" /\ freed[c] = 0
    /\ \E d \in Contexts : freed[d] = 1

====
